---- MODULE Spec2Model ----
(***************************************************************************)
(* Scan pipeline orchestrator of the vulnerability scanner.                *)
(*                                                                         *)
(* The repository carries three versions of performScan:                   *)
(*   VA  src/server/scanner.ts            (smooth progress, abort token)   *)
(*   VB  src/unnamed/part_000:168-555     (VA + duplicate resolver,        *)
(*                                         best-effort validation)        *)
(*   VC  src/unnamed/part_000:596-836     (first pipeline, no abort token) *)
(* One run of one scan is modelled; the version is fixed in Init.          *)
(* The scheduler (src/unnamed/part_004), the daemon client                 *)
(* (src/server/zap-client.ts) and the functions of the duplicate resolver   *)
(* have specifications of their own further down.                          *)
(* An action is the code between two awaits: JavaScript runs it without    *)
(* interleaving, so cancelScan can only act between two actions.           *)
(***************************************************************************)
EXTENDS Integers, Sequences, FiniteSets, TLC

VARIABLES
  variant,        \* which performScan is running
  scanType,       \* depth profile passed to performScan
  urlValid,       \* whether new URL(targetUrl) succeeds
  pc,             \* what the run does next
  status,         \* scan record: status
  progress,       \* scan record: progress
  counts,         \* scan record: totalVulnerabilities and severity counts
  aborted,        \* controller.signal.aborted
  registered,     \* activeScanAbortControllers.has(scanId)
  vulnerabilities,\* local list of findings of the run
  tally,          \* local criticalCount .. infoCount of the run
  finalVulns,     \* list submitted for persistence (deduplicated in VB)
  persisted,      \* findings stored by createVulnerability
  createCalls,    \* number of createVulnerability calls
  result,         \* aggregate returned by performScan
  reportMade,     \* a Report record exists
  sm,             \* updateProgressSmooth frame: from, to, i, ret, ctx
  err,            \* message of the error being handled
  zap,            \* active-scan poller: job state, daemon progress, polls, lastZapProgress
  inflight,       \* progress writes of un-awaited onProgress callbacks not yet landed
  faults,         \* storage calls that have thrown so far
  idx,            \* index of the persistence loop
  hist,           \* history: facts about the run the claims speak of
  args,           \* arguments of a direct call of the resolver's functions
  returned,       \* what that call returned
  schedules,      \* storage: the scheduled scans
  scans,          \* storage: the scans, as the scheduler sees them
  clock,          \* number of the current wall-clock instant
  ticks,          \* the running executions of the scheduler's tick
  calls,          \* the running calls of the daemon client's methods
  zapClient       \* the shared ZapClient: activeScanIds, requests it has issued

vars == <<variant, scanType, urlValid, pc, status, progress, counts,
          aborted, registered, vulnerabilities, tally, finalVulns, persisted,
          createCalls, result, reportMade, sm, err, zap, inflight, faults, idx, hist,
          args, returned, schedules, scans, clock, ticks, calls, zapClient>>

\* ------------------------------------------------------------------ bounds
MaxPolls == 2
MaxFaults == 1
MaxLen == 3
MaxStrLen == 3
MaxDays == 430
MaxClock == 2
MaxScans == 3

\* ------------------------------------------------------------- vocabulary
VA == "scanner_ts"
VB == "part000_dedup"
VC == "part000_first"
Variants == {VA, VB, VC}
\* "quick" is what the scheduler passes; like "medium" it fails every test
\* scanType === "shallow" and scanType === "deep" of the orchestrator.
ScanTypes == {"shallow", "deep", "quick"}

\* The depth the scheduler creates and launches its scans with.
ScheduledScanType == "quick"
Terminal == {"completed", "cancelled", "failed"}
Cancelled == "Scan cancelled by user"

Min2(a, b) == IF a <= b THEN a ELSE b
Max2(a, b) == IF a >= b THEN a ELSE b

\* --------------------------------------------------------------- strings
\* A string is a sequence of character codes: 0 is the blank, 1..9 are
\* lower-case letters, 11..19 the same letters in upper case.
Blank == 0
CaseShift == 10

\* Variant: the strings are compared as written, without lower-casing.
toLowerCaseKeepsCase(s) == s

toLowerCase(s) == [k \in 1..Len(s) |-> IF s[k] > CaseShift THEN s[k] - CaseShift ELSE s[k]]

RECURSIVE trimStart(_)
trimStart(s) == IF s # <<>> /\ Head(s) = Blank THEN trimStart(Tail(s)) ELSE s

RECURSIVE trimEnd(_)
trimEnd(s) == IF s # <<>> /\ s[Len(s)] = Blank THEN trimEnd(SubSeq(s, 1, Len(s) - 1)) ELSE s

trim(s) == trimEnd(trimStart(s))

\* matrix[i][j] of the Levenshtein table: rows follow s2, columns follow s1.
RECURSIVE matrix(_, _, _, _)
matrix(s1, s2, i, j) ==
  IF i = 0 THEN j
  ELSE IF j = 0 THEN i
  ELSE LET cost == IF s1[j] = s2[i] THEN 0 ELSE 1
       IN Min2(Min2(matrix(s1, s2, i, j - 1) + 1, matrix(s1, s2, i - 1, j) + 1),
               matrix(s1, s2, i - 1, j - 1) + cost)

\* calculateStringSimilarity as the fraction <<numerator, denominator>>.
calculateStringSimilarity(str1, str2) ==
  IF str1 = <<>> \/ str2 = <<>> THEN <<0, 1>>
  ELSE LET s1 == trim(toLowerCase(str1))
           s2 == trim(toLowerCase(str2))
           maxLen == Max2(Len(s1), Len(s2))
       IN IF s1 = s2 THEN <<1, 1>>
          ELSE <<maxLen - matrix(s1, s2, Len(s2), Len(s1)), maxLen>>

\* similarity < num/den, in exact arithmetic
SimBelow(sim, num, den) == sim[1] * den < num * sim[2]

UrlThreshold == <<8, 10>>

\* Variant: titles must be 0.7 similar.
TitleThresholdStrict == <<7, 10>>

TitleThreshold == <<6, 10>>

\* Variant: the match rule without the plugin identity check.
areDuplicateWithoutPlugin(vuln1, vuln2) ==
  LET urlSimilarity == calculateStringSimilarity(vuln1.affectedUrl, vuln2.affectedUrl)
      titleSimilarity == calculateStringSimilarity(vuln1.title, vuln2.title)
  IN /\ ~SimBelow(urlSimilarity, UrlThreshold[1], UrlThreshold[2])
     /\ ~SimBelow(titleSimilarity, TitleThreshold[1], TitleThreshold[2])
     /\ vuln1.severity = vuln2.severity
     /\ vuln1.type = vuln2.type

\* A finding: type, severity, title, affectedUrl, pluginId (0: details carry none).
areDuplicateVulnerabilities(vuln1, vuln2) ==
  LET urlSimilarity == calculateStringSimilarity(vuln1.affectedUrl, vuln2.affectedUrl)
      titleSimilarity == calculateStringSimilarity(vuln1.title, vuln2.title)
  IN IF vuln1.pluginId # 0 /\ vuln2.pluginId # 0 /\ vuln1.pluginId = vuln2.pluginId THEN TRUE
     ELSE IF SimBelow(urlSimilarity, UrlThreshold[1], UrlThreshold[2]) THEN FALSE
     ELSE IF SimBelow(titleSimilarity, TitleThreshold[1], TitleThreshold[2]) THEN FALSE
     ELSE IF vuln1.severity # vuln2.severity THEN FALSE
     ELSE IF vuln1.type # vuln2.type THEN FALSE
     ELSE TRUE

\* Variant: a finding is compared with the most recently accepted one only.
RECURSIVE dedupIntoLastOnly(_, _)
dedupIntoLastOnly(acc, rest) ==
  IF rest = <<>> THEN acc
  ELSE LET vuln == Head(rest)
           isDuplicate == acc # <<>> /\ areDuplicateVulnerabilities(vuln, acc[Len(acc)])
       IN dedupIntoLastOnly(IF isDuplicate THEN acc ELSE Append(acc, vuln), Tail(rest))

RECURSIVE dedupInto(_, _)
dedupInto(acc, rest) ==
  IF rest = <<>> THEN acc
  ELSE LET vuln == Head(rest)
           isDuplicate == \E k \in 1..Len(acc) : areDuplicateVulnerabilities(vuln, acc[k])
       IN dedupInto(IF isDuplicate THEN acc ELSE Append(acc, vuln), Tail(rest))

Reverse(s) == [k \in 1..Len(s) |-> s[Len(s) + 1 - k]]

\* Variant: the last-seen finding of a cluster is the one kept.
deduplicateKeepingLast(vs) ==
  LET d == Reverse(dedupInto(<<>>, Reverse(vs)))
  IN [deduplicated |-> d, removedCount |-> Len(vs) - Len(d)]

deduplicateVulnerabilities(vs) ==
  LET d == dedupInto(<<>>, vs)
  IN [deduplicated |-> d, removedCount |-> Len(vs) - Len(d)]


\* ------------------------------------------------------- pipeline constants
Steps == 20

\* Math.round(Math.min(from + ((to - from) / steps) * i, to)); every increment
\* the pipeline uses is a multiple of 1/4, so the arithmetic is exact.
SmoothValue(from, to, i) ==
  LET x20 == Min2(Steps * from + (to - from) * i, Steps * to)
  IN (2 * x20 + Steps) \div (2 * Steps)

\* Stage windows <<lo, hi>> of Validate, PortScan, WebServerScan, ActiveScan, Finalize.
StageWindow(v) ==
  IF v = VA THEN << <<0, 15>>, <<15, 35>>, <<35, 50>>, <<50, 90>>, <<90, 100>> >>
  ELSE << <<0, 10>>, <<10, 30>>, <<30, 45>>, <<45, 90>>, <<90, 100>> >>

\* Progress written at the start of each stage by the first pipeline.
StagePoint == <<10, 25, 40, 60, 95>>

\* 50 + Math.floor((progress / 100) * 40), 45 + ...45, 60 + ...35
mappedProgress(v, p) ==
  IF v = VA THEN 50 + (p * 40) \div 100
  ELSE IF v = VB THEN 45 + (p * 45) \div 100
  ELSE 60 + (p * 35) \div 100

ZapTarget == 90

\* ----------------------------------------------------------------- findings
TargetUrl == <<1, 2, 3, 4, 5>>
Hostname == <<3, 4, 5>>
TypeInfo == <<9, 1>>
TypeWeb == <<9, 2>>
TypeError == <<9, 3>>

Finding(type, severity, title, url, pluginId) ==
  [type |-> type, severity |-> severity, title |-> title, affectedUrl |-> url, pluginId |-> pluginId]

TechFinding == Finding(TypeInfo, "info", <<1, 2>>, TargetUrl, 0)
PreValidationNote == Finding(TypeInfo, "info", <<2, 1>>, TargetUrl, 0)
ServerInformation == Finding(TypeInfo, "info", <<3, 3>>, TargetUrl, 0)
OpenPorts == Finding(TypeInfo, "low", <<4, 4>>, Hostname, 0)
NiktoFailed == Finding(TypeError, "info", <<6, 6>>, TargetUrl, 0)

\* `Nikto: ${v.msg.substring(0, 100)}...` for the message m, found at the uri.
NiktoFinding(m, uri) ==
  Finding(TypeWeb, "medium", <<5, 6, m>>, IF uri = <<>> THEN TargetUrl ELSE uri, 0)

\* What the tools can answer.
HttpxOutcomes == {"throws", "unreachable", "reachable", "reachable_tech"}
FallbackOutcomes == {"ok", "fail"}
NmapOutcomes == {"throws", "none", "ports"}
NiktoOutcomes == {<<>>, <<NiktoFinding(7, <<>>), NiktoFinding(8, <<>>)>>}

\* Daemon alerts: pluginId, the three risk indicators ("" when absent), names, url.
Alert(pid, riskCode, riskcode, risk, name, pluginName, url) ==
  [pluginId |-> pid, riskCode |-> riskCode, riskcode |-> riskcode, risk |-> risk,
   alert |-> name, pluginName |-> pluginName, url |-> url]

AlertA == Alert(1, "3", "", "", <<7, 1>>, <<>>, TargetUrl)
AlertB == Alert(1, "", "", "Medium", <<7, 2>>, <<8>>, <<>>)
AlertC == Alert(2, "", "9", "", <<7, 3>>, <<>>, Hostname)
AlertOutcomes == {<<>>, <<AlertA, AlertB, AlertC>>}

\* Names that every object literal answers through Object.prototype, and what
\* riskMap[name] then is: a function or an object, truthy and not a tier.
ObjectMembers == {"constructor", "toString", "valueOf", "hasOwnProperty", "__proto__"}
ObjectMember == "object member"

\* riskMap[k] of the object literal; "none" is undefined.
riskMap(k) ==
  CASE k \in {"3", "High"} -> "high"
    [] k \in {"2", "Medium"} -> "medium"
    [] k \in {"1", "Low", "0", "Informational"} -> "low"
    [] k \in ObjectMembers -> ObjectMember
    [] OTHER -> "none"

convertAlert(a) ==
  LET riskKey == IF a.riskCode # "" THEN a.riskCode
                 ELSE IF a.riskcode # "" THEN a.riskcode
                 ELSE IF a.risk # "" THEN a.risk ELSE "0"
      severity == IF riskMap(riskKey) = "none" THEN "low" ELSE riskMap(riskKey)
      name == IF a.alert # <<>> THEN a.alert
              ELSE IF a.pluginName # <<>> THEN a.pluginName ELSE <<7, 7, 7>>
  IN Finding(IF a.pluginName # <<>> THEN a.pluginName ELSE name, severity, name, a.url, a.pluginId)

convertAlertsToVulnerabilities(alerts) == [k \in 1..Len(alerts) |-> convertAlert(alerts[k])]

\* scanner: { ...vuln, scanId, affectedUrl: vuln.affectedUrl || targetUrl }
zapVulnerabilities(vs) ==
  [k \in 1..Len(vs) |-> [vs[k] EXCEPT !.affectedUrl = IF @ = <<>> THEN TargetUrl ELSE @]]

Severities == {"critical", "high", "medium", "low", "info"}
ZeroTally == [s \in Severities |-> 0]

CountSev(vs, s) == Cardinality({k \in 1..Len(vs) : vs[k].severity = s})

\* The switch over vuln.severity; the versions without infoCount have no "info" case.
countSeverities(v, vs) ==
  [s \in Severities |-> IF s = "info" /\ v # VB THEN 0 ELSE CountSev(vs, s)]

AddTally(t, u) == [s \in Severities |-> t[s] + u[s]]

ZeroCounts == [total |-> 0, tally |-> ZeroTally]
EmptyResult == [vulnerabilities |-> <<>>, tally |-> ZeroTally]
NoResult == [vulnerabilities |-> <<>>, tally |-> [s \in Severities |-> -1]]


\* -------------------------------------------------------------------- state
StorageError == "storage call failed"
Unreachable == "Target is unreachable (httpx and fallback both failed)."
DaemonValues == {40, 100}

\* What a pipeline run never changes.
scheduler == <<schedules, scans, clock, ticks>>
clientSide == <<calls, zapClient>>
env == <<variant, scanType, urlValid, args, returned, scheduler, clientSide>>

\* No schedule stored and no tick running.
SchedulerIdle ==
  /\ schedules = <<>> /\ scans = <<>> /\ clock = 0 /\ ticks = <<>>

\* No direct call of the daemon client.
ClientIdle ==
  /\ calls = <<>> /\ zapClient = <<>>

NoFrame == [from |-> 0, to |-> 0, i |-> 0, ret |-> "none", ctx |-> "outer"]
ZapIdle == [job |-> "none", daemon |-> 0, polls |-> 0, last |-> 0, stops |-> 0, result |-> <<>>]
HistInit == [cancelInRun |-> FALSE, validateFailed |-> FALSE, portFailed |-> FALSE,
             webFailed |-> FALSE, escaped |-> FALSE, daemonDown |-> FALSE,
             timedOut |-> FALSE, detected |-> FALSE, jobAtCancel |-> "none", stage |-> 0,
             inOrder |-> TRUE]

Init ==
  /\ variant \in Variants
  /\ scanType \in ScanTypes
  /\ urlValid \in BOOLEAN
  /\ pc = "start"
  /\ status = "pending"
  /\ progress = 0
  /\ counts = ZeroCounts
  /\ aborted = FALSE
  \* the caller may have registered a controller (setScanAbortController) and passed it
  /\ registered \in BOOLEAN
  /\ variant = VC => ~registered
  /\ vulnerabilities = <<>>
  /\ tally = ZeroTally
  /\ finalVulns = <<>>
  /\ persisted = <<>>
  /\ createCalls = 0
  /\ result = NoResult
  /\ reportMade = FALSE
  /\ sm = NoFrame
  /\ err = ""
  /\ zap = ZapIdle
  /\ inflight = {}
  /\ faults = 0
  /\ idx = 0
  /\ hist = HistInit
  /\ args = <<>>
  /\ returned = <<>>
  /\ SchedulerIdle
  /\ ClientIdle

Shallow == scanType = "shallow"
Window(k) == StageWindow(variant)[k]

\* throw: inside the ActiveScan try the error goes to its catch, else to the outer one.
Raise(msg, ctx) ==
  /\ pc' = IF ctx = "zaptry" THEN "zapCatch" ELSE "catch"
  /\ err' = msg

\* A storage call rejects instead of writing.
StorageFault(ctx) ==
  /\ faults < MaxFaults
  /\ faults' = faults + 1
  /\ Raise(StorageError, ctx)

\* if (controller.signal.aborted) throw new Error("Scan cancelled by user")
AbortCheck == variant # VC /\ aborted

StartSmooth(from, to, ret, ctx) ==
  /\ sm' = [from |-> from, to |-> to, i |-> 0, ret |-> ret, ctx |-> ctx]
  /\ pc' = "smooth"

\* ------------------------------------------------------------ cancelScan(id)
CancelScan ==
  /\ registered
  /\ ~aborted
  /\ aborted' = TRUE
  /\ hist' = [hist EXCEPT !.cancelInRun = @ \/ (status = "running" /\ pc \notin {"done", "rejected"}),
                          !.jobAtCancel = zap.job]
  /\ UNCHANGED <<env, pc, status, progress, counts, registered, vulnerabilities, tally,
                 finalVulns, persisted, createCalls, result, reportMade, sm, err, zap,
                 inflight, faults, idx>>

\* An un-awaited progress write of the onProgress callback reaches the record.
LandWrite ==
  /\ \E p \in inflight :
       /\ progress' = p
       /\ inflight' = inflight \ {p}
  /\ UNCHANGED <<env, pc, status, counts, aborted, registered, vulnerabilities, tally,
                 finalVulns, persisted, createCalls, result, reportMade, sm, err, zap,
                 faults, idx, hist>>

\* ------------------------------------------------------------ performScan
\* Entry: controller registration and new URL(targetUrl).
Begin ==
  /\ pc = "start"
  /\ registered' = IF variant = VC THEN registered ELSE TRUE
  /\ IF urlValid
       THEN pc' = "setRunning" /\ UNCHANGED err
       ELSE IF variant = VC
              THEN Raise("Invalid URL", "outer")
              ELSE pc' = "rejected" /\ UNCHANGED err
  /\ UNCHANGED <<env, status, progress, counts, aborted, vulnerabilities, tally,
                 finalVulns, persisted, createCalls, result, reportMade, sm, zap,
                 inflight, faults, idx, hist>>

\* updateScan(scanId, {status: "running", startedAt, progress: 0})
SetRunning ==
  /\ pc = "setRunning"
  /\ \/ /\ status' = "running"
        /\ progress' = IF variant = VC THEN progress ELSE 0
        /\ pc' = "stage1"
        /\ UNCHANGED <<err, faults>>
     \/ StorageFault("outer") /\ UNCHANGED <<status, progress>>
  /\ UNCHANGED <<env, counts, aborted, registered, vulnerabilities, tally, finalVulns,
                 persisted, createCalls, result, reportMade, sm, zap, inflight, idx, hist>>

StagePc == <<"stage1", "stage2", "stage3", "stage4">>
ToolPc == <<"httpx", "nmap", "nikto">>

\* Start of the stages Validate, PortScan, WebServerScan: the abort check and
\* the stage's progress animation (the first pipeline writes one value).
StageStart(k) ==
  /\ pc = StagePc[k]
  /\ IF variant = VC
       THEN /\ \/ progress' = StagePoint[k] /\ pc' = ToolPc[k] /\ UNCHANGED <<err, faults>>
               \/ StorageFault("outer") /\ UNCHANGED progress
            /\ hist' = [hist EXCEPT !.stage = k, !.inOrder = @ /\ hist.stage = k - 1]
            /\ UNCHANGED sm
       ELSE /\ IF AbortCheck
                 THEN Raise(Cancelled, "outer") /\ hist' = [hist EXCEPT !.detected = TRUE] /\ UNCHANGED sm
                 ELSE /\ StartSmooth(Window(k)[1], Window(k)[2],
                                     IF k > 1 /\ Shallow THEN StagePc[k + 1] ELSE ToolPc[k], "outer")
                      /\ hist' = [hist EXCEPT !.stage = k, !.inOrder = @ /\ hist.stage = k - 1]
                      /\ UNCHANGED err
            /\ UNCHANGED <<progress, faults>>
  /\ UNCHANGED <<env, status, counts, aborted, registered, vulnerabilities, tally,
                 finalVulns, persisted, createCalls, result, reportMade, zap, inflight, idx>>

\* One iteration of the loop of updateProgressSmooth.
SmoothStep ==
  /\ pc = "smooth"
  /\ IF aborted
       THEN /\ Raise(Cancelled, sm.ctx)
            /\ hist' = [hist EXCEPT !.detected = TRUE]
            /\ UNCHANGED <<progress, sm, faults>>
       ELSE /\ \/ /\ progress' = SmoothValue(sm.from, sm.to, sm.i)
                  /\ IF sm.i < Steps
                       THEN sm' = [sm EXCEPT !.i = @ + 1] /\ UNCHANGED pc
                       ELSE pc' = "smoothFinal" /\ UNCHANGED sm
                  /\ UNCHANGED <<err, faults>>
               \/ StorageFault(sm.ctx) /\ UNCHANGED <<progress, sm>>
            /\ UNCHANGED hist
  /\ UNCHANGED <<env, status, counts, aborted, registered, vulnerabilities, tally,
                 finalVulns, persisted, createCalls, result, reportMade, zap, inflight, idx>>

\* The write after the loop: updateScan(scanId, {progress: Math.round(toProgress)})
SmoothFinal ==
  /\ pc = "smoothFinal"
  /\ \/ progress' = SmoothValue(sm.to, sm.to, 0) /\ pc' = sm.ret /\ UNCHANGED <<err, faults>>
     \/ StorageFault(sm.ctx) /\ UNCHANGED progress
  /\ UNCHANGED <<env, status, counts, aborted, registered, vulnerabilities, tally,
                 finalVulns, persisted, createCalls, result, reportMade, sm, zap,
                 inflight, idx, hist>>


\* Stage 1: httpxService.scan(targetUrl) answers.  The version with the
\* duplicate resolver reads statusCode < 500 where the others read reachable.
Validate ==
  /\ pc = "httpx"
  /\ \E o \in HttpxOutcomes :
       LET ok == o \in {"reachable", "reachable_tech"}
       IN IF variant = VB
            THEN /\ vulnerabilities' = Append(vulnerabilities,
                                              IF ok THEN ServerInformation ELSE PreValidationNote)
                 /\ hist' = [hist EXCEPT !.validateFailed = ~ok]
                 /\ pc' = "stage2"
            ELSE /\ vulnerabilities' = IF o = "reachable_tech"
                                         THEN Append(vulnerabilities, TechFinding)
                                         ELSE vulnerabilities
                 /\ pc' = IF ok THEN "stage2" ELSE "fallback"
                 /\ UNCHANGED hist
  /\ UNCHANGED <<env, status, progress, counts, aborted, registered, tally, finalVulns,
                 persisted, createCalls, result, reportMade, sm, err, zap, inflight,
                 faults, idx>>

\* Fallback validation: fetch(targetUrl, {method: "HEAD"}) answers.
Fallback ==
  /\ pc = "fallback"
  /\ \E o \in FallbackOutcomes :
       IF o = "ok"
         THEN pc' = "stage2" /\ UNCHANGED <<err, hist>>
         ELSE /\ Raise(Unreachable, "outer")
              /\ hist' = [hist EXCEPT !.validateFailed = TRUE]
  /\ UNCHANGED <<env, status, progress, counts, aborted, registered, vulnerabilities, tally,
                 finalVulns, persisted, createCalls, result, reportMade, sm, zap, inflight,
                 faults, idx>>

\* Stage 2: nmapService.scan(hostname, scanType) answers.
Nmap ==
  /\ pc = "nmap"
  /\ \E o \in NmapOutcomes :
       /\ hist' = [hist EXCEPT !.portFailed = (o = "throws")]
       /\ IF o = "throws" /\ variant = VC
            THEN Raise("Nmap scan failed. Aborting pipeline.", "outer")
            ELSE pc' = "stage3" /\ UNCHANGED err
       /\ vulnerabilities' = IF o = "ports" THEN Append(vulnerabilities, OpenPorts)
                                            ELSE vulnerabilities
       /\ tally' = IF o = "ports" THEN [tally EXCEPT !["low"] = @ + 1] ELSE tally
  /\ UNCHANGED <<env, status, progress, counts, aborted, registered, finalVulns,
                 persisted, createCalls, result, reportMade, sm, zap, inflight,
                 faults, idx>>

\* Stage 3: niktoService.scan(targetUrl, scanType) answers.
Nikto ==
  /\ pc = "nikto"
  /\ \/ \E r \in NiktoOutcomes :
          /\ vulnerabilities' = vulnerabilities \o r
          /\ tally' = [tally EXCEPT !["medium"] = @ + Len(r)]
          /\ UNCHANGED hist
     \/ /\ vulnerabilities' = IF variant = VC THEN Append(vulnerabilities, NiktoFailed)
                                              ELSE vulnerabilities
        /\ hist' = [hist EXCEPT !.webFailed = TRUE]
        /\ UNCHANGED tally
  /\ pc' = "stage4"
  /\ UNCHANGED <<env, status, progress, counts, aborted, registered, finalVulns,
                 persisted, createCalls, result, reportMade, sm, err, zap, inflight,
                 faults, idx>>

\* Stage 4 starts: the abort check, then zapClient.isReady(2, 500) is awaited
\* (the first pipeline writes its progress and calls the client directly).
Stage4 ==
  /\ pc = "stage4"
  /\ IF variant = VC
       THEN /\ \/ progress' = StagePoint[4] /\ pc' = "zapClientReady" /\ UNCHANGED <<err, faults>>
               \/ StorageFault("outer") /\ UNCHANGED progress
            /\ hist' = [hist EXCEPT !.stage = 4, !.inOrder = @ /\ hist.stage = 4 - 1]
       ELSE /\ IF AbortCheck
                 THEN Raise(Cancelled, "outer") /\ hist' = [hist EXCEPT !.detected = TRUE]
                 ELSE pc' = "zapReady" /\ hist' = [hist EXCEPT !.stage = 4, !.inOrder = @ /\ hist.stage = 4 - 1] /\ UNCHANGED err
            /\ UNCHANGED <<progress, faults>>
  /\ UNCHANGED <<env, status, counts, aborted, registered, vulnerabilities, tally,
                 finalVulns, persisted, createCalls, result, reportMade, sm, zap,
                 inflight, idx>>

\* Where an error of zapClient.performScan lands: the first pipeline has no
\* try around the call.
ZapCtx == IF variant = VC THEN "outer" ELSE "zaptry"

\* zapClient.isReady(2, 500).catch(() => false) answers.
ZapReady ==
  /\ pc = "zapReady"
  /\ \E ready \in BOOLEAN :
       IF ready
         THEN /\ zap' = [zap EXCEPT !.last = Window(4)[1]]
              /\ pc' = "zapClientReady"
              /\ UNCHANGED <<sm, hist>>
         ELSE /\ StartSmooth(Window(4)[1], ZapTarget, "finalize", "zaptry")
              /\ hist' = [hist EXCEPT !.daemonDown = TRUE]
              /\ UNCHANGED zap
  /\ UNCHANGED <<env, status, progress, counts, aborted, registered, vulnerabilities, tally,
                 finalVulns, persisted, createCalls, result, reportMade, err, inflight,
                 faults, idx>>

\* ZapClient.performScan: its own isReady() answers.
ZapClientReady ==
  /\ pc = "zapClientReady"
  /\ \E ready \in BOOLEAN :
       IF ready
         THEN pc' = "zapStart" /\ UNCHANGED <<err, hist>>
         ELSE /\ Raise("ZAP daemon is not ready.", ZapCtx)
              /\ hist' = [hist EXCEPT !.daemonDown = TRUE]
  /\ UNCHANGED <<env, status, progress, counts, aborted, registered, vulnerabilities, tally,
                 finalVulns, persisted, createCalls, result, reportMade, sm, zap, inflight,
                 faults, idx>>

\* ZapClient.startScan answers: the daemon job runs, or initiation failed.
ZapStart ==
  /\ pc = "zapStart"
  /\ \/ /\ zap' = [zap EXCEPT !.job = "running", !.daemon = 0, !.polls = 0]
        /\ pc' = "zapPoll"
        /\ UNCHANGED err
     \/ Raise("ZAP scan initiation failed", ZapCtx) /\ UNCHANGED zap
  /\ UNCHANGED <<env, status, progress, counts, aborted, registered, vulnerabilities, tally,
                 finalVulns, persisted, createCalls, result, reportMade, sm, inflight,
                 faults, idx, hist>>

\* One iteration of the loop of ZapClient.waitForScan.
ZapPoll ==
  /\ pc = "zapPoll"
  /\ \/ \* Date.now() - startTime >= maxWaitMs: the loop ends and the timeout is thrown
        /\ zap.polls >= 1
        /\ Raise("ZAP scan did not complete in time", ZapCtx)
        /\ hist' = [hist EXCEPT !.timedOut = TRUE]
        /\ UNCHANGED <<zap, inflight>>
     \/ \* abortSignal?.aborted: stop the daemon job (best effort), throw upward
        /\ zap.polls < MaxPolls
        /\ AbortCheck
        /\ \E stopped \in BOOLEAN :
             zap' = [zap EXCEPT !.stops = @ + 1, !.job = IF stopped THEN "stopped" ELSE @]
        /\ Raise(Cancelled, ZapCtx)
        /\ hist' = [hist EXCEPT !.detected = TRUE]
        /\ UNCHANGED inflight
     \/ \* the status request fails: wait and poll again
        /\ zap.polls < MaxPolls
        /\ ~AbortCheck
        /\ zap' = [zap EXCEPT !.polls = @ + 1]
        /\ UNCHANGED <<pc, err, inflight, hist>>
     \/ \* the daemon reports progress p; onProgress(p) is called and not awaited
        /\ zap.polls < MaxPolls
        /\ ~AbortCheck
        /\ \E p \in DaemonValues :
             /\ p >= zap.daemon
             /\ zap' = [zap EXCEPT !.daemon = p,
                                   !.last = IF variant = VC THEN @ ELSE mappedProgress(variant, p),
                                   !.polls = IF p = 100 THEN @ ELSE @ + 1,
                                   !.job = IF p = 100 THEN "finished" ELSE @]
             /\ inflight' = inflight \cup {mappedProgress(variant, p)}
             /\ pc' = IF p = 100 THEN "zapAlerts" ELSE pc
        /\ UNCHANGED <<err, hist>>
  /\ UNCHANGED <<env, status, progress, counts, aborted, registered, vulnerabilities, tally,
                 finalVulns, persisted, createCalls, result, reportMade, sm, faults, idx>>


\* getAlerts(scanId) answers (a failed fetch gives no alerts); back in the
\* orchestrator: if (lastZapProgress < 90) updateProgressSmooth(last, 90, ...)
ZapAlerts ==
  /\ pc = "zapAlerts"
  /\ \E alerts \in AlertOutcomes :
       zap' = [zap EXCEPT !.result = convertAlertsToVulnerabilities(alerts), !.polls = 0]
  /\ IF variant # VC /\ zap.last < ZapTarget
       THEN StartSmooth(zap.last, ZapTarget, "finalize", "zaptry")
       ELSE pc' = "finalize" /\ UNCHANGED sm
  /\ UNCHANGED <<env, status, progress, counts, aborted, registered, vulnerabilities, tally,
                 finalVulns, persisted, createCalls, result, reportMade, err, inflight,
                 faults, idx, hist>>

\* catch (zapError) of the ActiveScan stage.
ZapCatch ==
  /\ pc = "zapCatch"
  /\ IF err = Cancelled
       THEN pc' = "catch" /\ UNCHANGED <<zap, sm, err>>
       ELSE /\ zap' = [zap EXCEPT !.result = <<>>, !.polls = 0]
            /\ err' = ""
            /\ IF variant = VB
                 THEN StartSmooth(Window(4)[1], ZapTarget, "finalize", "outer")
                 ELSE pc' = "finalize" /\ UNCHANGED sm
  /\ UNCHANGED <<env, status, progress, counts, aborted, registered, vulnerabilities, tally,
                 finalVulns, persisted, createCalls, result, reportMade, inflight,
                 faults, idx, hist>>

\* Finalization: the daemon findings join the list, the severities are
\* counted, the resolver runs (where present), the last animation starts.
Finalize ==
  /\ pc = "finalize"
  /\ LET zv == zapVulnerabilities(zap.result)
         all == vulnerabilities \o zv
     IN /\ vulnerabilities' = all
        /\ tally' = AddTally(tally, countSeverities(variant, zv))
        /\ finalVulns' = IF variant = VB THEN deduplicateVulnerabilities(all).deduplicated ELSE all
  /\ idx' = 0
  /\ hist' = [hist EXCEPT !.stage = 5, !.inOrder = @ /\ hist.stage = 5 - 1]
  /\ IF variant = VC
       THEN /\ \/ progress' = StagePoint[5] /\ pc' = "persist" /\ UNCHANGED <<err, faults>>
               \/ StorageFault("outer") /\ UNCHANGED progress
            /\ UNCHANGED sm
       ELSE /\ StartSmooth(Window(5)[1], Window(5)[2], "persist", "outer")
            /\ UNCHANGED <<progress, err, faults>>
  /\ UNCHANGED <<env, status, counts, aborted, registered, persisted, createCalls, result,
                 reportMade, zap, inflight>>

\* storage.createVulnerability(vuln) inside try/catch: a failure is logged only.
CreateOne ==
  /\ idx < Len(finalVulns)
  /\ idx' = idx + 1
  /\ createCalls' = createCalls + 1
  /\ \/ persisted' = Append(persisted, finalVulns[idx + 1]) /\ UNCHANGED faults
     \/ faults < MaxFaults /\ faults' = faults + 1 /\ UNCHANGED persisted

Persist ==
  /\ pc = "persist"
  /\ CreateOne
  /\ UNCHANGED <<env, pc, status, progress, counts, aborted, registered, vulnerabilities,
                 tally, finalVulns, result, reportMade, sm, err, zap, inflight, hist>>

\* Counts the completed record carries.
FinalTally == IF variant = VB THEN countSeverities(VB, finalVulns) ELSE tally

\* updateScan(scanId, {status: "completed", ..., progress: 100})
SetCompleted ==
  /\ pc = "persist"
  /\ idx = Len(finalVulns)
  /\ \/ /\ status' = "completed"
        /\ progress' = 100
        /\ counts' = [total |-> Len(finalVulns), tally |-> FinalTally]
        /\ pc' = "report"
        /\ UNCHANGED <<err, faults>>
     \/ StorageFault("outer") /\ UNCHANGED <<status, progress, counts>>
  /\ UNCHANGED <<env, aborted, registered, vulnerabilities, tally, finalVulns, persisted,
                 createCalls, result, reportMade, sm, zap, inflight, idx, hist>>

\* Variant: report creation outside its own try, so its error reaches the outer catch.
AfterReportErrorEscapes == "catch"

\* Where the run goes when getScan or createReport throws: the inner catch logs it.
AfterReportError == "done"

\* Create Report (inside its own try/catch), then return the aggregate.
Report ==
  /\ pc = "report"
  /\ \/ /\ reportMade' = TRUE
        /\ pc' = "done"
        /\ result' = [vulnerabilities |-> finalVulns, tally |-> FinalTally]
        /\ UNCHANGED <<faults, err>>
     \/ /\ faults < MaxFaults
        /\ faults' = faults + 1
        /\ pc' = AfterReportError
        /\ err' = IF AfterReportError = "done" THEN err ELSE StorageError
        /\ result' = IF AfterReportError = "done"
                       THEN [vulnerabilities |-> finalVulns, tally |-> FinalTally]
                       ELSE result
        /\ UNCHANGED reportMade
  /\ UNCHANGED <<env, status, progress, counts, aborted, registered, vulnerabilities, tally,
                 finalVulns, persisted, createCalls, sm, zap, inflight, idx, hist>>

\* Variant: the outer catch takes every error for the cancellation.
ErrorStatusCancelled(v) == "cancelled"

\* Status the outer catch writes for an error that is not the cancellation.
ErrorStatus(v) == IF v = VB THEN "completed" ELSE "failed"

\* catch (error) of performScan.
Catch ==
  /\ pc = "catch"
  /\ registered' = IF variant = VC THEN registered ELSE FALSE
  /\ hist' = [hist EXCEPT !.escaped = @ \/ err # Cancelled]
  /\ IF err = Cancelled \/ variant # VB
       THEN /\ \/ /\ status' = IF err = Cancelled THEN "cancelled" ELSE ErrorStatus(variant)
                  /\ counts' = ZeroCounts
                  /\ result' = EmptyResult
                  /\ pc' = "done"
                  /\ UNCHANGED faults
               \/ /\ faults < MaxFaults
                  /\ faults' = faults + 1
                  /\ pc' = "rejected"
                  /\ UNCHANGED <<status, counts, result>>
            /\ UNCHANGED <<progress, finalVulns, idx>>
       ELSE LET errorDeduplicated == deduplicateVulnerabilities(vulnerabilities).deduplicated
            IN /\ \/ /\ status' = ErrorStatus(variant)
                     /\ progress' = 100
                     /\ counts' = [total |-> Len(errorDeduplicated),
                                   tally |-> countSeverities(VB, errorDeduplicated)]
                     /\ finalVulns' = errorDeduplicated
                     /\ idx' = 0
                     /\ pc' = "persistErr"
                     /\ UNCHANGED faults
                  \/ /\ faults < MaxFaults
                     /\ faults' = faults + 1
                     /\ pc' = "rejected"
                     /\ UNCHANGED <<status, progress, counts, finalVulns, idx>>
               /\ UNCHANGED result
  /\ sm' = NoFrame
  /\ UNCHANGED <<env, aborted, vulnerabilities, tally, persisted, createCalls, reportMade,
                 err, zap, inflight>>

\* The error path of the version with the resolver persists what it has.
PersistErr ==
  /\ pc = "persistErr"
  /\ CreateOne
  /\ UNCHANGED <<env, pc, status, progress, counts, aborted, registered, vulnerabilities,
                 tally, finalVulns, result, reportMade, sm, err, zap, inflight, hist>>

ReturnErr ==
  /\ pc = "persistErr"
  /\ idx = Len(finalVulns)
  /\ pc' = "done"
  /\ result' = [vulnerabilities |-> finalVulns, tally |-> countSeverities(VB, finalVulns)]
  /\ UNCHANGED <<env, status, progress, counts, aborted, registered, vulnerabilities, tally,
                 finalVulns, persisted, createCalls, reportMade, sm, err, zap, inflight,
                 faults, idx, hist>>

Next ==
  \/ CancelScan
  \/ LandWrite
  \/ Begin
  \/ SetRunning
  \/ \E k \in 1..3 : StageStart(k)
  \/ SmoothStep
  \/ SmoothFinal
  \/ Validate
  \/ Fallback
  \/ Nmap
  \/ Nikto
  \/ Stage4
  \/ ZapReady
  \/ ZapClientReady
  \/ ZapStart
  \/ ZapPoll
  \/ ZapAlerts
  \/ ZapCatch
  \/ Finalize
  \/ Persist
  \/ SetCompleted
  \/ Report
  \/ Catch
  \/ PersistErr
  \/ ReturnErr

Spec == Init /\ [][Next]_vars


\* ------------------------------------------------- direct calls of the resolver
\* The functions of the Duplicate Resolver are also called directly, on
\* arguments drawn from pools; the pipeline state stays as constructed.
pipeline == <<variant, scanType, urlValid, status, progress, counts, aborted, registered,
              vulnerabilities, tally, finalVulns, persisted, createCalls, result,
              reportMade, sm, err, zap, inflight, faults, idx, hist>>

PipelineIdle ==
  /\ variant = VB /\ scanType = "deep" /\ urlValid = TRUE
  /\ status = "pending" /\ progress = 0 /\ counts = ZeroCounts
  /\ aborted = FALSE /\ registered = FALSE
  /\ vulnerabilities = <<>> /\ tally = ZeroTally /\ finalVulns = <<>>
  /\ persisted = <<>> /\ createCalls = 0 /\ result = NoResult /\ reportMade = FALSE
  /\ sm = NoFrame /\ err = "" /\ zap = ZapIdle /\ inflight = {} /\ faults = 0
  /\ idx = 0 /\ hist = HistInit

\* Affected URLs at similarity 4/5 and 3/5 from TargetUrl (4/5 from each other).
UrlNear == <<1, 2, 3, 4, 6>>
UrlFar == <<1, 2, 3, 7, 6>>
\* Titles at similarity 3/5 and 2/5 from TitleBase.
TitleBase == <<1, 2, 3, 4, 5>>
TitleNear == <<1, 2, 3, 6, 7>>
TitleFar == <<1, 2, 8, 6, 7>>

\* Findings the first finding of a pair is drawn from.
FindingPool ==
  {Finding(t, sev, title, url, p) :
     t \in {TypeWeb, TypeInfo}, sev \in {"high", "low"},
     title \in {TitleBase, TitleNear, TitleFar},
     url \in {TargetUrl, UrlNear, UrlFar, <<>>}, p \in {0, 1, 2}}

\* Findings the second finding of a pair is drawn from.
AcceptedPool ==
  {Finding(TypeWeb, "high", title, url, p) :
     title \in {TitleBase, TitleNear}, url \in {TargetUrl, UrlNear, <<>>}, p \in {0, 1}}

\* Findings a list is drawn from.
ListPool ==
  {Finding(TypeWeb, "high", TitleBase, TargetUrl, 0),
   Finding(TypeWeb, "high", TitleBase, TargetUrl, 1),
   Finding(TypeInfo, "low", TitleFar, UrlFar, 1),
   Finding(TypeWeb, "high", TitleNear, UrlNear, 2),
   Finding(TypeWeb, "high", TitleBase, UrlFar, 0),
   Finding(TypeWeb, "low", TitleBase, TargetUrl, 0),
   Finding(TypeWeb, "high", TitleBase, <<>>, 0),
   Finding(TypeInfo, "high", TitleFar, TargetUrl, 2)}

Lists(S, n) == UNION {[1..k -> S] : k \in 0..n}

\* Strings over a blank, two letters and the upper case of the first letter.
Alphabet == {Blank, 1, 2, 1 + CaseShift}
Kitten == <<1, 2, 3, 3, 4, 5>>
Sitting == <<6, 2, 3, 3, 2, 5, 7>>
StringPool == Lists(Alphabet, MaxStrLen) \cup {Kitten, Sitting}

\* deduplicateVulnerabilities(vulnerabilities)
ResolverInit ==
  /\ PipelineIdle
  /\ ClientIdle
  /\ SchedulerIdle
  /\ pc = "call"
  /\ args \in Lists(ListPool, MaxLen)
  /\ returned = <<>>

Resolve ==
  /\ pc = "call"
  /\ returned' = deduplicateVulnerabilities(args)
  /\ pc' = "resolved"
  /\ UNCHANGED <<pipeline, scheduler, clientSide, args>>

ResolverNext == Resolve

ResolverSpec == ResolverInit /\ [][ResolverNext]_vars

\* areDuplicateVulnerabilities(vuln, deduplicated[i])
MatchInit ==
  /\ PipelineIdle
  /\ ClientIdle
  /\ SchedulerIdle
  /\ pc = "call"
  /\ args \in FindingPool \X AcceptedPool
  /\ returned = <<>>

Match ==
  /\ pc = "call"
  /\ returned' = areDuplicateVulnerabilities(args[1], args[2])
  /\ pc' = "matched"
  /\ UNCHANGED <<pipeline, scheduler, clientSide, args>>

\* The same call after the severity of the first finding alone was changed.
MatchOtherSeverity ==
  /\ pc = "matched"
  /\ \E sev \in {"high", "low"} \ {args[1].severity} :
       /\ args' = <<[args[1] EXCEPT !.severity = sev], args[2]>>
       /\ returned' = areDuplicateVulnerabilities(args'[1], args'[2])
  /\ pc' = "rematched"
  /\ UNCHANGED <<pipeline, scheduler, clientSide>>

MatchNext == Match \/ MatchOtherSeverity

MatchSpec == MatchInit /\ [][MatchNext]_vars

\* calculateStringSimilarity(str1, str2)
SimilarityInit ==
  /\ PipelineIdle
  /\ ClientIdle
  /\ SchedulerIdle
  /\ pc = "call"
  /\ args \in StringPool \X StringPool
  /\ returned = <<>>

Similarity ==
  /\ pc = "call"
  /\ returned' = calculateStringSimilarity(args[1], args[2])
  /\ pc' = "scored"
  /\ UNCHANGED <<pipeline, scheduler, clientSide, args>>

SimilarityNext == Similarity

SimilaritySpec == SimilarityInit /\ [][SimilarityNext]_vars


\* ------------------------------------------------------------ Date arithmetic
\* A Date is [y, m, d, t]: year, month 0..11, day of the month, minute of the day.
\* The setters carry an overflowing field into the next one, as Date's do.
NoDate == [y |-> 0, m |-> 0, d |-> 0, t |-> 0]
\* undefined or null
Null == -1

IsLeap(y) == (y % 4 = 0 /\ y % 100 # 0) \/ y % 400 = 0

DaysInMonth(y, m) ==
  CASE m \in {0, 2, 4, 6, 7, 9, 11} -> 31
    [] m \in {3, 5, 8, 10} -> 30
    [] OTHER -> IF IsLeap(y) THEN 29 ELSE 28

RECURSIVE MakeDate(_, _, _, _)
MakeDate(y, m, d, t) ==
  IF m > 11 THEN MakeDate(y + 1, m - 12, d, t)
  ELSE IF d > DaysInMonth(y, m) THEN MakeDate(y, m + 1, d - DaysInMonth(y, m), t)
  ELSE [y |-> y, m |-> m, d |-> d, t |-> t]

setHours(date, hours, minutes) == [date EXCEPT !.t = hours * 60 + minutes]
setDate(date, d) == MakeDate(date.y, date.m, d, date.t)
setMonth(date, m) == MakeDate(date.y, m, date.d, date.t)
setFullYear(date, y) == MakeDate(y, date.m, date.d, date.t)

RECURSIVE DaysBeforeMonth(_, _)
DaysBeforeMonth(y, m) ==
  IF m = 0 THEN 0 ELSE DaysBeforeMonth(y, m - 1) + DaysInMonth(y, m - 1)

\* Number of the day, counted from Monday 1 January of year 1.
DayNumber(date) ==
  365 * (date.y - 1) + ((date.y - 1) \div 4) - ((date.y - 1) \div 100)
    + ((date.y - 1) \div 400) + DaysBeforeMonth(date.y, date.m) + date.d

\* 0 is Sunday
getDay(date) == DayNumber(date) % 7

\* The time value two Dates are compared by, in minutes.
getTime(date) == DayNumber(date) * 1440 + date.t

\* ------------------------------------------------------------ calculateNextRun
Frequencies == {"daily", "weekly", "monthly", "quarterly", "annually"}

\* The same without the step to a later month.
RollMonthsStays(schedule, atTime, fromDate, k) ==
  IF schedule.dayOfMonth \notin {Null, 0}
  THEN setDate(atTime, schedule.dayOfMonth)
  ELSE atTime

\* nextRun.setMonth(nextRun.getMonth() + k) once the instant has passed
RollMonths(schedule, atTime, fromDate, k) ==
  LET onDay == IF schedule.dayOfMonth \notin {Null, 0}
               THEN setDate(atTime, schedule.dayOfMonth)
               ELSE atTime
  IN  IF getTime(onDay) <= getTime(fromDate) THEN setMonth(onDay, onDay.m + k) ELSE onDay

\* The same without the step to the following week.
daysToAddSameWeek(turn, passed) == turn

\* daysToAdd after "if (daysToAdd === 0 && nextRun <= fromDate) daysToAdd = 7"
daysToAdd(turn, passed) == IF turn = 0 /\ passed THEN 7 ELSE turn

calculateNextRun(schedule, fromDate) ==
  LET atTime == setHours(fromDate, schedule.time[1], schedule.time[2])
      passed == getTime(atTime) <= getTime(fromDate)
  IN  CASE schedule.frequency = "daily" ->
             IF passed THEN setDate(atTime, atTime.d + 1) ELSE atTime
        [] schedule.frequency = "weekly" ->
             IF schedule.dayOfWeek # Null
             THEN LET turn == (schedule.dayOfWeek - getDay(atTime) + 7) % 7
                      add == daysToAdd(turn, passed)
                  IN  IF add > 0 THEN setDate(atTime, atTime.d + add) ELSE atTime
             ELSE IF passed THEN setDate(atTime, atTime.d + 7) ELSE atTime
        [] schedule.frequency = "monthly" -> RollMonths(schedule, atTime, fromDate, 1)
        [] schedule.frequency = "quarterly" -> RollMonths(schedule, atTime, fromDate, 3)
        [] schedule.frequency = "annually" ->
             LET inMonth == IF schedule.month # Null
                            THEN setMonth(atTime, schedule.month)
                            ELSE atTime
                 onDay == IF schedule.dayOfMonth \notin {Null, 0}
                          THEN setDate(inMonth, schedule.dayOfMonth)
                          ELSE inMonth
             IN  IF getTime(onDay) <= getTime(fromDate)
                 THEN setFullYear(onDay, onDay.y + 1)
                 ELSE onDay
        [] OTHER -> atTime

\* --------------------------------------------- direct calls of calculateNextRun
\* Every day from PoolStart on, at three times of the day.
PoolStart == [y |-> 2024, m |-> 0, d |-> 1, t |-> 0]
ClockTimes == {<<1, 0>>, <<2, 0>>, <<10, 0>>}
DatePool ==
  {setHours(setDate(PoolStart, 1 + n), c[1], c[2]) : n \in 0..MaxDays, c \in ClockTimes}

Timing(frequency, dayOfWeek, dayOfMonth, month) ==
  [frequency |-> frequency, time |-> <<2, 0>>, dayOfWeek |-> dayOfWeek,
   dayOfMonth |-> dayOfMonth, month |-> month]

TimingPool ==
  {Timing("daily", Null, Null, Null)}
    \cup {Timing("weekly", w, Null, Null) : w \in {Null, 0, 3}}
    \cup {Timing(f, Null, d, Null) : f \in {"monthly", "quarterly"}, d \in {Null, 15, 31}}
    \cup {Timing("annually", Null, d, m) : d \in {Null, 15, 31}, m \in {Null, 1, 3}}

CalcInit ==
  /\ PipelineIdle
  /\ ClientIdle
  /\ SchedulerIdle
  /\ pc = "call"
  /\ args \in TimingPool \X DatePool
  /\ returned = <<>>

Calculate ==
  /\ pc = "call"
  /\ returned' = calculateNextRun(args[1], args[2])
  /\ pc' = "calculated"
  /\ UNCHANGED <<pipeline, scheduler, clientSide, args>>

CalcNext == Calculate

CalcSpec == CalcInit /\ [][CalcNext]_vars


\* ------------------------------------------------------------------ scheduler
\* initScheduler registers one cron task that fires every minute.  An execution
\* of its callback (a tick) is modelled between its awaits; a second execution
\* can start while the first is still awaiting storage.
Slots == {1, 2}
ScheduleIds == {1, 2}

\* The wall clock at the instants the cron task fires: two days apart,
\* alternately at 10:00 and at 01:00; instant 0 is Monday 27 January 2025, 01:00.
FirstInstant == [y |-> 2025, m |-> 0, d |-> 27, t |-> 60]
Instant(k) ==
  LET day == setDate(FirstInstant, FirstInstant.d + 2 * k)
  IN  IF k % 2 = 0 THEN setHours(day, 1, 0) ELSE setHours(day, 10, 0)

Stored(timing, enabled, lastRun, nextRun) ==
  [frequency |-> timing.frequency, time |-> timing.time, dayOfWeek |-> timing.dayOfWeek,
   dayOfMonth |-> timing.dayOfMonth, month |-> timing.month,
   enabled |-> enabled, lastRun |-> lastRun, nextRun |-> nextRun]

\* Schedules as the routes store them and as earlier ticks left them.
SchedulePool ==
  LET daily == Timing("daily", Null, Null, Null)
      weekly == Timing("weekly", 3, Null, Null)
      monthly == Timing("monthly", Null, 31, Null)
      quarterly == Timing("quarterly", Null, 15, Null)
      annually == Timing("annually", Null, 15, 1)
      t0 == Instant(0)
  IN  {Stored(daily, TRUE, NoDate, NoDate),
       Stored(daily, FALSE, t0, calculateNextRun(daily, t0)),
       Stored(weekly, TRUE, t0, NoDate),
       Stored(monthly, TRUE, t0, NoDate),
       Stored(quarterly, TRUE, NoDate, NoDate),
       Stored(annually, TRUE, t0, NoDate)}

\* skipped records that the last execution returned at the cap.
IdleTick == [pc |-> "idle", now |-> NoDate, schedules |-> <<>>, i |-> 0, skipped |-> FALSE]

\* The pipeline state a tick leaves alone.
scanRun == <<variant, scanType, urlValid, pc, status, progress, counts, aborted, registered,
             vulnerabilities, tally, finalVulns, persisted, createCalls, result,
             reportMade, sm, err, zap, inflight, idx, hist, args, returned, clientSide>>

SchedulerInit ==
  /\ PipelineIdle
  /\ ClientIdle
  /\ pc = "scheduler"
  /\ args = <<>> /\ returned = <<>>
  /\ schedules \in [ScheduleIds -> SchedulePool]
  /\ scans = <<>>
  /\ clock = 0
  /\ ticks = [t \in Slots |-> IdleTick]

\* runningScans: allScans.filter(s => s.status === "running" || s.status === "pending")
IsRunningOnly(scan) == scan.status = "running"

IsActive(scan) == scan.status \in {"running", "pending"}

runningScans == {k \in DOMAIN scans : IsActive(scans[k])}

MaxConcurrentScans == 2

\* The same with a schedule that never ran and has no nextRun left alone.
shouldRunOnceRun(schedule, now) ==
  IF schedule.nextRun # NoDate
  THEN getTime(now) >= getTime(schedule.nextRun)
  ELSE IF schedule.lastRun # NoDate
       THEN getTime(now) >= getTime(calculateNextRun(schedule, schedule.lastRun))
       ELSE FALSE

\* shouldRun of an enabled schedule, as the loop decides it
shouldRun(schedule, now) ==
  IF schedule.nextRun # NoDate
  THEN getTime(now) >= getTime(schedule.nextRun)
  ELSE IF schedule.lastRun # NoDate
       THEN getTime(now) >= getTime(calculateNextRun(schedule, schedule.lastRun))
       ELSE TRUE

\* Variant: the expected occurrence is never persisted.
repairsNever(schedule, now) == FALSE

\* The else branch that persists the expected occurrence.
repairs(schedule, now) ==
  /\ schedule.nextRun = NoDate
  /\ schedule.lastRun # NoDate
  /\ getTime(now) < getTime(calculateNextRun(schedule, schedule.lastRun))

\* The cron task fires; the callback awaits getAllScheduledScans.
Fire(t) ==
  /\ clock < MaxClock
  /\ ticks[t].pc = "idle"
  /\ \A u \in Slots : u < t => ticks[u].pc # "idle"
  /\ clock' = clock + 1
  /\ ticks' = [ticks EXCEPT ![t].pc = "schedules", ![t].skipped = FALSE]
  /\ UNCHANGED <<scanRun, faults, schedules, scans>>

\* getAllScheduledScans resolves, now is taken, getAllScans is awaited.
ReadSchedules(t) ==
  /\ ticks[t].pc = "schedules"
  /\ ticks' = [ticks EXCEPT ![t].pc = "scans", ![t].schedules = schedules,
                            ![t].now = Instant(clock)]
  /\ UNCHANGED <<scanRun, faults, schedules, scans, clock>>

\* The loop from schedule i on, up to its first await: createScan for a due
\* schedule, updateScheduledScan for a repair; past the last schedule the tick ends.
RECURSIVE Evaluate(_, _)
Evaluate(tick, i) ==
  IF i \notin DOMAIN tick.schedules THEN IdleTick
  ELSE IF ~tick.schedules[i].enabled THEN Evaluate(tick, i + 1)
  ELSE IF shouldRun(tick.schedules[i], tick.now) THEN [tick EXCEPT !.pc = "create", !.i = i]
  ELSE IF repairs(tick.schedules[i], tick.now) THEN [tick EXCEPT !.pc = "repair", !.i = i]
  ELSE Evaluate(tick, i + 1)

\* getAllScans resolves; with the cap reached the tick returns, else the loop starts.
CountScans(t) ==
  /\ ticks[t].pc = "scans"
  /\ ticks' = IF Cardinality(runningScans) >= MaxConcurrentScans
              THEN [ticks EXCEPT ![t] = [IdleTick EXCEPT !.skipped = TRUE]]
              ELSE [ticks EXCEPT ![t] = Evaluate(ticks[t], 1)]
  /\ UNCHANGED <<scanRun, faults, schedules, scans, clock>>

\* updateScheduledScan(schedule.id, { nextRun: expectedNext }) resolves and the
\* loop goes on.
Repair(t) ==
  /\ ticks[t].pc = "repair"
  /\ LET i == ticks[t].i
         schedule == ticks[t].schedules[i]
     IN  schedules' = [schedules EXCEPT
                         ![i].nextRun = calculateNextRun(schedule, schedule.lastRun)]
  /\ ticks' = [ticks EXCEPT ![t] = Evaluate(ticks[t], ticks[t].i + 1)]
  /\ UNCHANGED <<scanRun, faults, scans, clock>>

\* createScan resolves; the controller is registered, performScan is started
\* without being awaited and updateScheduledScan is awaited.
CreateScan(t) ==
  /\ ticks[t].pc = "create"
  /\ Len(scans) < MaxScans
  /\ scans' = Append(scans, [status |-> "pending", scanType |-> ScheduledScanType,
                             schedule |-> ticks[t].i])
  /\ ticks' = [ticks EXCEPT ![t].pc = "update"]
  /\ UNCHANGED <<scanRun, faults, schedules, clock>>

\* updateScheduledScan(schedule.id, { lastRun: now, nextRun }) resolves and the
\* loop goes on.
UpdateSchedule(t) ==
  /\ ticks[t].pc = "update"
  /\ LET i == ticks[t].i
     IN  schedules' = [schedules EXCEPT
                         ![i].lastRun = ticks[t].now,
                         ![i].nextRun = calculateNextRun(ticks[t].schedules[i], ticks[t].now)]
  /\ ticks' = [ticks EXCEPT ![t] = Evaluate(ticks[t], ticks[t].i + 1)]
  /\ UNCHANGED <<scanRun, faults, scans, clock>>

\* A storage call of the tick rejects: the catch logs and the tick ends.
TickFails(t) ==
  /\ ticks[t].pc \in {"schedules", "scans", "repair", "create", "update"}
  /\ faults < MaxFaults
  /\ faults' = faults + 1
  /\ ticks' = [ticks EXCEPT ![t] = IdleTick]
  /\ UNCHANGED <<scanRun, schedules, scans, clock>>

\* The run of a created scan goes from pending to running and to its end.
ScanStep(k) ==
  /\ IsActive(scans[k])
  /\ scans' = [scans EXCEPT ![k].status = IF @ = "pending" THEN "running" ELSE "completed"]
  /\ UNCHANGED <<scanRun, faults, schedules, clock, ticks>>

SchedulerNext ==
  \/ \E t \in Slots : Fire(t)
  \/ \E t \in Slots : ReadSchedules(t)
  \/ \E t \in Slots : CountScans(t)
  \/ \E t \in Slots : Repair(t)
  \/ \E t \in Slots : CreateScan(t)
  \/ \E t \in Slots : UpdateSchedule(t)
  \/ \E t \in Slots : TickFails(t)
  \/ \E k \in DOMAIN scans : ScanStep(k)

SchedulerSpec == SchedulerInit /\ [][SchedulerNext]_vars


\* ------------------------------------ direct calls of the daemon client's mapping
\* Risk indicators of an alert: "" is an absent field; the tiers by code and by
\* name, an unknown code, a tier name in lower case and a member name.
RiskKeys == {"", "3", "High", "2", "Medium", "1", "Low", "0", "Informational",
             "9", "high", "constructor"}

\* zapClient.convertAlertsToVulnerabilities([alert])
ConvertInit ==
  /\ PipelineIdle
  /\ SchedulerIdle
  /\ ClientIdle
  /\ pc = "call"
  /\ args \in {Alert(1, riskCode, riskcode, risk, <<7, 1>>, <<>>, TargetUrl) :
                 riskCode \in RiskKeys, riskcode \in RiskKeys, risk \in RiskKeys}
  /\ returned = <<>>

Convert ==
  /\ pc = "call"
  /\ returned' = convertAlertsToVulnerabilities(<<args>>)
  /\ pc' = "converted"
  /\ UNCHANGED <<pipeline, scheduler, clientSide, args>>

ConvertNext == Convert

ConvertSpec == ConvertInit /\ [][ConvertNext]_vars

\* ------------------------------------------------------ direct calls of isReady
\* Largest maxAttempts a call is made with.
MaxAttempts == 4

\* initialDelay of the orchestrator's call isReady(2, 500) and of the default.
InitialDelays == {500, 2000}

\* How a GET of the daemon's base URL ends: it resolves with status 200, it
\* resolves with another 2xx status, or it rejects (no answer, timeout, status
\* outside 2xx).
Responses == {"200", "204", "rejects"}

RECURSIVE Pow(_, _)
Pow(b, n) == IF n = 0 THEN 1 ELSE b * Pow(b, n - 1)

\* initialDelay * Math.pow(1.5, i) as the fraction <<numerator, denominator>>.
delay(initialDelay, i) == <<initialDelay * Pow(3, i), Pow(2, i)>>
NoWait == <<0, 1>>

\* The call: loop index, requests issued, how each attempt ended and the time
\* waited after it.
ReadyInit ==
  /\ PipelineIdle
  /\ SchedulerIdle
  /\ pc = "call"
  /\ args \in (1..MaxAttempts) \X InitialDelays
  /\ returned = ""
  /\ calls = <<[i |-> 0, requests |-> 0, outcomes |-> <<>>, waits |-> <<>>]>>
  /\ zapClient = <<>>

\* for (let i = ...; i < maxAttempts; ...) at index j: the next GET is issued,
\* or the loop is over and false is returned.
Attempt(call, j) ==
  IF j < args[1]
  THEN /\ calls' = <<[call EXCEPT !.i = j, !.requests = @ + 1]>>
       /\ pc' = "request"
       /\ UNCHANGED returned
  ELSE /\ calls' = <<[call EXCEPT !.i = j]>>
       /\ pc' = "returned"
       /\ returned' = FALSE

ReadyCall ==
  /\ pc = "call"
  /\ Attempt(calls[1], 0)
  /\ UNCHANGED <<pipeline, scheduler, zapClient, args>>

\* The GET of attempt i ends.
ReadyAnswer ==
  /\ pc = "request"
  /\ \E o \in Responses :
       LET call == [calls[1] EXCEPT !.outcomes = Append(@, o)]
       IN  CASE o = "200" ->
                  /\ calls' = <<call>>
                  /\ returned' = TRUE
                  /\ pc' = "returned"
             [] o = "204" ->
                  Attempt([call EXCEPT !.waits = Append(@, NoWait)], call.i + 1)
             [] o = "rejects" ->
                  IF call.i < args[1] - 1
                  THEN /\ calls' = <<[call EXCEPT !.waits = Append(@, delay(args[2], call.i))]>>
                       /\ pc' = "wait"
                       /\ UNCHANGED returned
                  ELSE Attempt([call EXCEPT !.waits = Append(@, NoWait)], call.i + 1)
  /\ UNCHANGED <<pipeline, scheduler, zapClient, args>>

\* The timer of the backoff fires.
ReadyWake ==
  /\ pc = "wait"
  /\ Attempt(calls[1], calls[1].i + 1)
  /\ UNCHANGED <<pipeline, scheduler, zapClient, args>>

ReadyNext == ReadyCall \/ ReadyAnswer \/ ReadyWake

ReadySpec == ReadyInit /\ [][ReadyNext]_vars

\* ------------------------------------- ZapClient.performScan, two runs at a time
\* Two pipeline runs call performScan of the one exported client.  A step is
\* the code between two awaits of one run.  Timeouts are "the time is up",
\* possible once the loop has polled; the loop is always entered, since its
\* timeout is at least 5 seconds.
Runs == {1, 2}

IdleCall == [pc |-> "idle", spiderPolls |-> 0, spiderFailure |-> "none",
             pollErrored |-> FALSE, requested |-> FALSE, polls |-> 0]

ClientInit ==
  /\ PipelineIdle
  /\ SchedulerIdle
  /\ pc = "client"
  /\ args = <<>> /\ returned = <<>>
  /\ calls = [r \in Runs |-> IdleCall]
  /\ zapClient = [activeScanIds |-> {}, sessions |-> 0]

ClientFrame == UNCHANGED <<pipeline, scheduler, pc, args, returned>>

\* performScan is called and awaits isReady().
Enter(r) ==
  /\ calls[r].pc = "idle"
  /\ calls' = [calls EXCEPT ![r].pc = "isReady"]
  /\ UNCHANGED zapClient
  /\ ClientFrame

\* isReady() answers: not ready throws; ready calls startScan, which awaits
\* clearSession().
Ready(r) ==
  /\ calls[r].pc = "isReady"
  /\ \E ready \in BOOLEAN :
       calls' = [calls EXCEPT ![r].pc = IF ready THEN "clearSession" ELSE "failed"]
  /\ UNCHANGED zapClient
  /\ ClientFrame

\* newSession?overwrite=true is served by the daemon, or the request fails
\* (logged, not fatal); accessUrl is requested next.
ClearSession(r) ==
  /\ calls[r].pc = "clearSession"
  /\ \E served \in BOOLEAN :
       zapClient' = [zapClient EXCEPT !.sessions = IF served THEN @ + 1 ELSE @]
  /\ calls' = [calls EXCEPT ![r].pc = "accessUrl"]
  /\ ClientFrame

\* accessUrl answers or fails (logged); the spider is requested.
AccessUrl(r) ==
  /\ calls[r].pc = "accessUrl"
  /\ calls' = [calls EXCEPT ![r].pc = "spiderStart"]
  /\ UNCHANGED zapClient
  /\ ClientFrame

\* Variant: an error of the spider block leaves startScan.
AfterSpiderErrorEscapes == "failed"

\* Where the catch of the spider block continues: Step 3, the active scan.
AfterSpiderError == "ascan"

\* spider/action/scan answers and waitForSpider starts polling, or it fails.
SpiderStart(r) ==
  /\ calls[r].pc = "spiderStart"
  /\ \/ calls' = [calls EXCEPT ![r].pc = "spider"]
     \/ calls' = [calls EXCEPT ![r].pc = AfterSpiderError, ![r].spiderFailure = "start"]
  /\ UNCHANGED zapClient
  /\ ClientFrame

\* One round of waitForSpider.
SpiderPoll(r) ==
  /\ calls[r].pc = "spider"
  /\ \/ \* the time is up: "did not complete within" is thrown and caught
        /\ calls[r].spiderPolls >= 1
        /\ calls' = [calls EXCEPT ![r].pc = AfterSpiderError, ![r].spiderFailure = "timeout"]
     \/ \* the status request fails: logged, wait, poll again
        /\ calls[r].spiderPolls < MaxPolls
        /\ calls' = [calls EXCEPT ![r].spiderPolls = @ + 1, ![r].pollErrored = TRUE]
     \/ \* progress below 100: wait, poll again
        /\ calls[r].spiderPolls < MaxPolls
        /\ calls' = [calls EXCEPT ![r].spiderPolls = @ + 1]
     \/ \* progress 100: settle for two seconds and return
        /\ calls[r].spiderPolls < MaxPolls
        /\ calls' = [calls EXCEPT ![r].pc = "ascan"]
  /\ UNCHANGED zapClient
  /\ ClientFrame

\* ascan/action/scan was requested: the job runs and its id is kept, or the
\* request fails and startScan throws "ZAP scan initiation failed".
ActiveScanStart(r) ==
  /\ calls[r].pc = "ascan"
  /\ \/ /\ calls' = [calls EXCEPT ![r].pc = "poll", ![r].requested = TRUE]
        /\ zapClient' = [zapClient EXCEPT !.activeScanIds = @ \cup {r}]
     \/ /\ calls' = [calls EXCEPT ![r].pc = "failed", ![r].requested = TRUE]
        /\ UNCHANGED zapClient
  /\ ClientFrame

\* One round of waitForScan (no abort signal is passed here).
ScanPoll(r) ==
  /\ calls[r].pc = "poll"
  /\ \/ \* the time is up
        /\ calls[r].polls >= 1
        /\ calls' = [calls EXCEPT ![r].pc = "failed"]
        /\ UNCHANGED zapClient
     \/ \* progress below 100 or a failed status request
        /\ calls[r].polls < MaxPolls
        /\ calls' = [calls EXCEPT ![r].polls = @ + 1]
        /\ UNCHANGED zapClient
     \/ \* progress 100: the id is dropped, getAlerts is requested
        /\ calls[r].polls < MaxPolls
        /\ calls' = [calls EXCEPT ![r].pc = "alerts"]
        /\ zapClient' = [zapClient EXCEPT !.activeScanIds = @ \ {r}]
  /\ ClientFrame

\* getAlerts answers (a failed fetch gives no alerts) and performScan returns.
GetAlerts(r) ==
  /\ calls[r].pc = "alerts"
  /\ calls' = [calls EXCEPT ![r].pc = "done"]
  /\ UNCHANGED zapClient
  /\ ClientFrame

ClientNext ==
  \E r \in Runs :
    \/ Enter(r)
    \/ Ready(r)
    \/ ClearSession(r)
    \/ AccessUrl(r)
    \/ SpiderStart(r)
    \/ SpiderPoll(r)
    \/ ActiveScanStart(r)
    \/ ScanPoll(r)
    \/ GetAlerts(r)

ClientSpec == ClientInit /\ [][ClientNext]_vars

\* ---------------------------------------------------------------- claims
RunEnded == pc \in {"done", "rejected"}
InfoFindings(vs) == CountSev(vs, "info")

\* C1: a cancellation requested while the scan is running ends the run with
\* status cancelled, never completed or failed.  Stated for the runs in which
\* no storage call fails and validation does not fail.
C1_CancelEndsCancelled ==
  (pc = "done" /\ hist.cancelInRun /\ faults = 0 /\ ~hist.validateFailed)
    => status = "cancelled"

\* C2: the progress of the scan record never decreases during a run.  Stated
\* for the steps of the run itself: the landing of a callback write is left
\* out, so the order in which those writes land cannot be what breaks it,
\* and so are the runs in which a storage call fails.
C2_ProgressNonDecreasing ==
  [][(inflight' = inflight /\ faults' = 0) => progress' >= progress]_vars

\* C3: progress is 100 only when status is completed (the half of the
\* equivalence that does not depend on when callback writes land), in the
\* runs where no storage call fails.
C3_HundredOnlyCompleted == (progress = 100 /\ faults = 0) => status = "completed"

\* C4 as claimed: status moves pending -> running -> terminal only.
C4_OnlyThroughRunning ==
  [][\/ status' = status
     \/ status = "pending" /\ status' = "running"
     \/ status = "running" /\ status' \in Terminal]_vars

\* C4: status moves pending -> running -> {completed, cancelled, failed}, or
\* from pending straight to the status the outer catch writes for an error
\* raised before running was written; a terminal status never changes.
C4_StatusPath ==
  [][\/ status' = status
     \/ status = "pending" /\ status' \in {"running", ErrorStatus(variant)}
     \/ status = "running" /\ status' \in Terminal]_vars

\* C4 witness: the run went on after the terminal write (report creation ran)
\* and cancelScan was called on the finished scan.
C4_Witness == status = "completed" /\ pc = "done" /\ reportMade /\ aborted

\* C5: a run that has ended has written a terminal status.
C5_EndedRunIsTerminal == RunEnded => status \in Terminal

\* C6: a cancelled scan has no persisted finding: createVulnerability was
\* never called for it.
C6_CancelledPersistsNothing ==
  status = "cancelled" => (createCalls = 0 /\ persisted = <<>>)

\* C6 witness: a run that had collected findings ended cancelled.
C6_Witness == status = "cancelled" /\ pc = "done" /\ Len(vulnerabilities) >= 2

\* C7: after a failure of the port scanner or the web-server scanner the run,
\* absent cancellation (and storage failure), ends completed and the failed
\* stage has added no finding.
C7_ToolFailureAbsorbed ==
  (pc = "done" /\ (hist.portFailed \/ hist.webFailed) /\ ~aborted /\ faults = 0
     /\ ~hist.daemonDown /\ ~hist.timedOut)
    => (status = "completed" /\ \A k \in 1..Len(vulnerabilities) : vulnerabilities[k] # NiktoFailed)

\* C8: a total failure of Validate does not abort the pipeline and records
\* one informational finding.  Stated for the orchestrator of src/server/scanner.ts.
C8_ValidateFailureContinues ==
  (variant = VA /\ hist.validateFailed)
    => (err # Unreachable /\ InfoFindings(vulnerabilities) = 1)

\* C9: an error other than the cancellation that reaches the outer catch
\* ends the scan failed, with nothing persisted and an empty aggregate.
C9_EscapedErrorFails ==
  (pc = "done" /\ hist.escaped)
    => (status = "failed" /\ createCalls = 0 /\ result = EmptyResult)

\* C10: a shallow scan of an unreachable target, not cancelled, ends
\* completed with exactly one finding, of severity info, and zero counts above
\* info.  Stated for the orchestrator of src/server/scanner.ts.
C10_ShallowUnreachableCompletes ==
  (pc = "done" /\ variant = VA /\ Shallow /\ hist.validateFailed /\ ~aborted /\ faults = 0)
    => /\ status = "completed"
       /\ counts.total = 1
       /\ \A s \in Severities \ {"info"} : counts.tally[s] = 0
       /\ Len(persisted) = 1 /\ persisted[1].severity = "info"

\* C11: when a run ends cancelled and the daemon job it started was still
\* running when cancelScan was called, a stop command for the job was sent to
\* the daemon before the cancelled status was written.
C11_StopBeforeCancelled ==
  (status = "cancelled" /\ hist.jobAtCancel = "running") => zap.stops >= 1

\* C12: when the daemon is found unreachable at the ActiveScan stage (no
\* cancellation, no storage failure) no job is started on the daemon, the
\* progress is at the upper bound of the stage's window when Finalize starts,
\* and the run ends completed with the findings of the earlier stages.
C12_DaemonDownSkipsStage ==
  (hist.daemonDown /\ ~aborted /\ faults = 0)
    => /\ zap.job = "none"
       /\ (pc = "finalize" /\ variant # VC) => progress = Window(4)[2]
       /\ pc = "done" => (status = "completed" /\ zap.result = <<>> /\ persisted = finalVulns)

\* C13: in a shallow scan the port scanner and the web-server scanner are
\* never invoked, and the progress is at the upper bound of the skipped
\* stage's window when the next stage starts.
C13_ShallowSkipsTools ==
  Shallow
    => /\ pc \notin {"nmap", "nikto"}
       /\ (variant # VC /\ pc = "stage3") => progress = Window(2)[2]
       /\ (variant # VC /\ pc = "stage4") => progress = Window(3)[2]

\* Stage in which each external tool is awaited.
ToolStage ==
  [p \in {"httpx", "fallback", "nmap", "nikto", "zapReady", "zapClientReady",
          "zapStart", "zapPoll", "zapAlerts"} |->
     CASE p \in {"httpx", "fallback"} -> 1
       [] p = "nmap" -> 2
       [] p = "nikto" -> 3
       [] OTHER -> 4]

\* C14: the stages start in the order Validate, PortScan, WebServerScan,
\* ActiveScan, Finalize, a tool is awaited only while its own stage is the
\* current one, and createVulnerability is called only once Finalize has
\* started, that is after the ActiveScan stage has ended.
C14_StagesInOrder ==
  /\ hist.inOrder
  /\ pc \in DOMAIN ToolStage => hist.stage = ToolStage[pc]
  /\ createCalls > 0 => hist.stage = 5

\* The windows of a version are contiguous and cover 0..100.
Contiguous(w) ==
  /\ w[1][1] = 0
  /\ w[Len(w)][2] = 100
  /\ \A k \in 1..(Len(w) - 1) : w[k][2] = w[k + 1][1]

\* C15: the five windows are contiguous and cover 0..100, and when a stage
\* has ended without cancellation (no storage failure, no callback write
\* still to land) the progress is at the stage's upper bound when the next
\* stage starts.
C15_StageReachesUpperBound ==
  /\ \A v \in {VA, VB} : Len(StageWindow(v)) = 5 /\ Contiguous(StageWindow(v))
  /\ (variant # VC /\ ~aborted /\ faults = 0 /\ inflight = {})
       => /\ \A k \in 1..3 : pc = StagePc[k + 1] => progress = Window(k)[2]
          /\ pc = "finalize" => progress = Window(4)[2]
          /\ pc = "persist" => progress = Window(5)[2]

\* Both findings carry a plugin identity and the identities are equal.
SamePlugin(f, g) == f.pluginId # 0 /\ g.pluginId # 0 /\ f.pluginId = g.pluginId
Occurs(f, vs) == \E k \in 1..Len(vs) : vs[k] = f

\* C16 as claimed, in its weakest reading: a finding whose plugin identity
\* was already seen earlier in the input, and which differs from the
\* first-seen finding of that identity, is not in the deduplicated output.
C16_OnlyFirstSeenKept ==
  pc = "resolved"
    => \A j \in 1..Len(args) :
         LET seen == {i \in 1..(j - 1) : SamePlugin(args[i], args[j])}
             first == CHOOSE i \in seen : \A h \in seen : i <= h
         IN (seen # {} /\ args[j] # args[first])
              => ~Occurs(args[j], returned.deduplicated)

\* C16: two findings that share a plugin identity are duplicates whatever
\* their URLs, titles, severities and categories (a list of the two is
\* resolved to the first), so at most one of them is in the deduplicated
\* output: never the later one when the first-seen one is retained.
C16_SamePluginMerged ==
  pc = "resolved"
    => LET out == returned.deduplicated
       IN /\ (Len(args) = 2 /\ SamePlugin(args[1], args[2])) => out = <<args[1]>>
          /\ \A i, j \in 1..Len(out) : i < j => ~SamePlugin(out[i], out[j])
          /\ \A i, j \in 1..Len(args) :
               (i < j /\ SamePlugin(args[i], args[j]) /\ Occurs(args[i], out)
                  /\ args[j] # args[i])
                 => ~Occurs(args[j], out)

\* C16 witness: the first-seen of two findings with one plugin identity was
\* merged into an earlier finding, and the later one is in the output.
C16_Witness ==
  /\ pc = "resolved"
  /\ Len(args) = 3
  /\ SamePlugin(args[2], args[3])
  /\ returned.deduplicated = <<args[1], args[3]>>

\* The match rule for findings without a shared plugin identity.
MatchRule(f, g) ==
  LET u == calculateStringSimilarity(f.affectedUrl, g.affectedUrl)
      t == calculateStringSimilarity(f.title, g.title)
  IN /\ 10 * u[1] >= 8 * u[2]
     /\ 10 * t[1] >= 6 * t[2]
     /\ f.severity = g.severity
     /\ f.type = g.type

\* C17: two findings that do not share a plugin identity are duplicates
\* exactly when URL similarity >= 0.8, title similarity >= 0.6, severities
\* equal and categories equal; after the severity of one of two such merged
\* findings alone is changed they are not duplicates.
C17_MatchRuleDecides ==
  [][/\ (pc' \in {"matched", "rematched"} /\ ~SamePlugin(args'[1], args'[2]))
          => returned' = MatchRule(args'[1], args'[2])
     /\ (pc = "matched" /\ pc' = "rematched" /\ returned = TRUE
           /\ ~SamePlugin(args[1], args[2]))
          => returned' = FALSE]_vars

\* C17 witness: two findings exactly at both thresholds, merged until the
\* severity of the first was changed.
C17_Witness ==
  /\ pc = "rematched"
  /\ returned = FALSE
  /\ ~SamePlugin(args[1], args[2])
  /\ calculateStringSimilarity(args[1].affectedUrl, args[2].affectedUrl) = <<4, 5>>
  /\ calculateStringSimilarity(args[1].title, args[2].title) = <<3, 5>>
  /\ args[1].type = args[2].type

\* Strictly increasing maps of 1..n into 1..m.
Embeddings(n, m) ==
  {f \in [1..n -> 1..m] : \A a, b \in 1..n : a < b => f[a] < f[b]}

\* C18: the deduplicated output is a subsequence of the input in input
\* order, it starts with the first input finding, and every removed finding
\* is a duplicate of a retained finding that comes earlier in the input.
C18_FirstSeenKept ==
  pc = "resolved"
    => LET out == returned.deduplicated
       IN /\ returned.removedCount = Len(args) - Len(out)
          /\ args # <<>> => (out # <<>> /\ out[1] = args[1])
          /\ \E f \in Embeddings(Len(out), Len(args)) :
               /\ \A k \in 1..Len(out) : out[k] = args[f[k]]
               /\ \A j \in 1..Len(args) \ {f[k] : k \in 1..Len(out)} :
                    \E k \in 1..Len(out) :
                      f[k] < j /\ areDuplicateVulnerabilities(args[j], out[k])

\* C18 witness: a cluster of three different findings resolved to its first.
C18_Witness ==
  /\ pc = "resolved"
  /\ Len(args) = 3
  /\ args[1] # args[2] /\ args[2] # args[3] /\ args[1] # args[3]
  /\ returned.removedCount = 2
  /\ returned.deduplicated = <<args[1]>>

\* Lower-cased, then without leading and trailing blanks.
Normalized(s) ==
  LET low == [k \in 1..Len(s) |-> IF s[k] > 10 THEN s[k] - 10 ELSE s[k]]
      inked == {k \in 1..Len(s) : low[k] # 0}
  IN IF inked = {} THEN <<>>
     ELSE SubSeq(low, CHOOSE k \in inked : \A m \in inked : k <= m,
                      CHOOSE k \in inked : \A m \in inked : k >= m)

\* Edit distance, by its recursive definition.
RECURSIVE Levenshtein(_, _)
Levenshtein(a, b) ==
  IF a = <<>> THEN Len(b)
  ELSE IF b = <<>> THEN Len(a)
  ELSE IF Head(a) = Head(b) THEN Levenshtein(Tail(a), Tail(b))
  ELSE 1 + Min2(Levenshtein(Tail(a), Tail(b)),
                Min2(Levenshtein(Tail(a), b), Levenshtein(a, Tail(b))))

\* The score num/den is 1 - Levenshtein/longer length of the normalized strings.
IsEditScore(score, a, b) ==
  LET longer == Max2(Len(Normalized(a)), Len(Normalized(b)))
  IN score[1] * longer = score[2] * (longer - Levenshtein(Normalized(a), Normalized(b)))

InUnitRange(score) == score[2] > 0 /\ 0 <= score[1] /\ score[1] <= score[2]

\* C19 as claimed: the score is 1 whenever the strings are identical after
\* lower-casing and trimming, 0 whenever either is empty, otherwise
\* 1 - distance/length; always within 0..1.
C19_SimilarityAsClaimed ==
  pc = "scored"
    => LET a == args[1]
           b == args[2]
       IN /\ Normalized(a) = Normalized(b) => returned[1] = returned[2]
          /\ (a = <<>> \/ b = <<>>) => returned[1] = 0
          /\ (Normalized(a) # Normalized(b) /\ a # <<>> /\ b # <<>>)
               => IsEditScore(returned, a, b)
          /\ InUnitRange(returned)

\* C19: the score is 0 when either string is empty; for two non-empty
\* strings it is 1 when they are identical after lower-casing and trimming
\* and otherwise 1 - distance/length of the longer; always within 0..1.
C19_Similarity ==
  pc = "scored"
    => LET a == args[1]
           b == args[2]
       IN /\ (a = <<>> \/ b = <<>>) => returned[1] = 0
          /\ (a # <<>> /\ b # <<>> /\ Normalized(a) = Normalized(b))
               => returned[1] = returned[2]
          /\ (a # <<>> /\ b # <<>> /\ Normalized(a) # Normalized(b))
               => IsEditScore(returned, a, b)
          /\ InUnitRange(returned)

\* C19 witness: kitten and sitting score 1 - 3/7.
C19_Witness == pc = "scored" /\ args = <<Kitten, Sitting>> /\ returned = <<4, 7>>

\* C20: when a run has ended completed (no storage failure), the total is
\* the size of the deduplicated set of the findings collected, each severity
\* count is the number of deduplicated findings of that severity, and the
\* findings submitted to createVulnerability are the deduplicated findings,
\* each once.  Stated for the orchestrator of src/server/scanner.ts.
C20_CountsMatchDeduplicated ==
  (variant = VA /\ pc = "done" /\ status = "completed" /\ faults = 0)
    => LET deduplicated == deduplicateVulnerabilities(vulnerabilities).deduplicated
       IN /\ counts.total = Len(deduplicated)
          /\ \A s \in Severities : counts.tally[s] = CountSev(deduplicated, s)
          /\ persisted = deduplicated
          /\ createCalls = Len(deduplicated)

\* A direct call of calculateNextRun has returned.
Calculated == pc = "calculated"
\* A Date that names a day of the calendar.
IsDate(date) == date.m \in 0..11 /\ date.d \in 1..DaysInMonth(date.y, date.m)
\* Minute of the day of the schedule's clock time.
ClockMinute(schedule) == schedule.time[1] * 60 + schedule.time[2]
\* Days from the reference's day to the first day on weekday w whose clock time
\* is strictly after the reference.
DaysToWeekday(schedule, fromDate) ==
  CHOOSE k \in 0..7 :
    /\ (DayNumber(fromDate) + k) % 7 = schedule.dayOfWeek
    /\ k > 0 \/ ClockMinute(schedule) > fromDate.t
    /\ \A j \in 0..(k - 1) :
         ~ /\ (DayNumber(fromDate) + j) % 7 = schedule.dayOfWeek
           /\ j > 0 \/ ClockMinute(schedule) > fromDate.t

\* C26: for a weekly schedule with weekday w and clock time t, calculateNextRun
\* returns the earliest instant strictly after the reference that falls on
\* weekday w at time t.
C26_WeeklyEarliestAfter ==
  (Calculated /\ args[1].frequency = "weekly" /\ args[1].dayOfWeek # Null) =>
    /\ IsDate(returned)
    /\ returned.t = ClockMinute(args[1])
    /\ DayNumber(returned) = DayNumber(args[2]) + DaysToWeekday(args[1], args[2])

\* A Monday 10:00 reference gives the following Wednesday 02:00.
C26_Witness ==
  /\ Calculated /\ args[1].frequency = "weekly" /\ args[1].dayOfWeek = 3
  /\ getDay(args[2]) = 1 /\ args[2].t = 600
  /\ DayNumber(returned) = DayNumber(args[2]) + 2 /\ returned.t = 120

\* Day d of month m of year y at the schedule's clock time, as fields.
OnDay(schedule, y, m, d) == [y |-> y, m |-> m, d |-> d, t |-> ClockMinute(schedule)]

\* C27: for an annual schedule with month m and day d, calculateNextRun returns
\* month m, day d at the clock time, in the reference's year when that instant is
\* strictly after the reference and in the next year otherwise, whatever the
\* reference's day of the month.
C27_AnnualOnMonthAndDay ==
  (/\ Calculated /\ args[1].frequency = "annually"
   /\ args[1].month # Null /\ args[1].dayOfMonth \notin {Null, 0}
   /\ args[1].dayOfMonth <= DaysInMonth(args[2].y + 1, args[1].month)
   /\ args[1].dayOfMonth <= DaysInMonth(args[2].y, args[1].month)) =>
    LET thisYear == OnDay(args[1], args[2].y, args[1].month, args[1].dayOfMonth)
    IN  returned = IF getTime(thisYear) > getTime(args[2])
                   THEN thisYear
                   ELSE [thisYear EXCEPT !.y = @ + 1]

\* C28: for a monthly (k = 1) or quarterly (k = 3) schedule with day d,
\* calculateNextRun returns day d at the clock time in the reference's month when
\* that instant is strictly after the reference, otherwise day d in the month
\* exactly k months later; the returned day of the month is always d.
C28_DayOfMonthKept ==
  (/\ Calculated /\ args[1].frequency \in {"monthly", "quarterly"}
   /\ args[1].dayOfMonth \notin {Null, 0}) =>
    LET k == IF args[1].frequency = "monthly" THEN 1 ELSE 3
        thisMonth == OnDay(args[1], args[2].y, args[2].m, args[1].dayOfMonth)
        later == OnDay(args[1], args[2].y + ((args[2].m + k) \div 12),
                       (args[2].m + k) % 12, args[1].dayOfMonth)
    IN  returned = IF getTime(thisMonth) > getTime(args[2]) THEN thisMonth ELSE later

\* Scans the cap counts, by their stored status.
Active == {k \in DOMAIN scans : scans[k].status \in {"pending", "running"}}
\* Slot t takes a step in which no storage call rejects.
Steps_(t) == ticks'[t] # ticks[t] /\ faults' = faults

\* C21: a tick that finds two or more scans running or pending evaluates no
\* schedule: it ends there, creates no scan and changes no lastRun or nextRun.
C21_CapSkipsTick ==
  [][\A t \in Slots :
       (ticks[t].pc = "scans" /\ Cardinality(Active) >= 2 /\ Steps_(t)) =>
         /\ ticks'[t].pc = "idle"
         /\ scans' = scans
         /\ schedules' = schedules]_vars

\* A tick returned at the cap while a schedule it read was due.
C21_Witness ==
  \E t \in Slots :
    /\ ticks[t].skipped /\ ticks[t].pc = "idle"
    /\ Cardinality(Active) >= 2
    /\ \E i \in ScheduleIds : schedules[i].enabled /\ shouldRun(schedules[i], Instant(clock))

\* C22: once the ticks have ended, at most two scans created by the scheduler
\* are pending or running.
C22_AtMostTwoActive ==
  (\A t \in Slots : ticks[t].pc = "idle") =>
    Cardinality({k \in Active : scans[k].schedule \in ScheduleIds}) <= 2

\* The due rule for a schedule as a tick read it.
Triggers(schedule, now) ==
  /\ schedule.enabled
  /\ \/ schedule.nextRun # NoDate /\ getTime(now) >= getTime(schedule.nextRun)
     \/ /\ schedule.nextRun = NoDate /\ schedule.lastRun # NoDate
        /\ getTime(now) >= getTime(calculateNextRun(schedule, schedule.lastRun))
     \/ schedule.nextRun = NoDate /\ schedule.lastRun = NoDate
\* First schedule the loop of slot t looks at in the step, and where it stops.
LoopFrom(t) == IF ticks[t].pc = "scans" THEN 1 ELSE ticks[t].i + 1
LoopStop(t) == IF ticks'[t].pc = "idle" THEN Cardinality(ScheduleIds) + 1 ELSE ticks'[t].i

\* C23: in a tick that is not skipped the loop asks for a scan of a schedule
\* exactly when the schedule is enabled and nextRun is set and reached, or nextRun
\* is unset, lastRun is set and the occurrence after lastRun is reached, or
\* neither is set; a disabled schedule is never triggered and never modified.
C23_DueRule ==
  [][/\ \A t \in Slots :
          (/\ \/ ticks[t].pc = "scans" /\ Cardinality(Active) < 2
              \/ ticks[t].pc \in {"repair", "update"}
           /\ Steps_(t)) =>
            \A j \in ScheduleIds :
              /\ (LoopFrom(t) <= j /\ j < LoopStop(t)) =>
                   ~Triggers(ticks[t].schedules[j], ticks[t].now)
              /\ j = LoopStop(t) =>
                   (Triggers(ticks[t].schedules[j], ticks[t].now) <=> ticks'[t].pc = "create")
     /\ \A i \in ScheduleIds : ~schedules[i].enabled => schedules'[i] = schedules[i]]_vars

\* The loop passed a disabled schedule whose nextRun is reached and asks for a
\* scan of the next one, which ran before and has no nextRun.
C23_Witness ==
  \E t \in Slots :
    /\ ticks[t].pc = "create" /\ ticks[t].i = 2
    /\ ~ticks[t].schedules[1].enabled
    /\ getTime(ticks[t].now) >= getTime(ticks[t].schedules[1].nextRun)
    /\ ticks[t].schedules[2].nextRun = NoDate /\ ticks[t].schedules[2].lastRun # NoDate

\* C24: a schedule found due gets one scan in the tick, lastRun becomes the tick's
\* now and nextRun the occurrence after now, so no tick whose time is before the
\* nextRun that is persisted creates a scan for the schedule.
C24_OncePerOccurrence ==
  [][\A t \in Slots :
       /\ (ticks[t].pc = "create" /\ Steps_(t)) =>
            /\ Len(scans') = Len(scans) + 1
            /\ LET nextRun == schedules[ticks[t].i].nextRun
               IN  nextRun = NoDate \/ getTime(ticks[t].now) >= getTime(nextRun)
       /\ (ticks[t].pc = "update" /\ Steps_(t)) =>
            /\ schedules'[ticks[t].i].lastRun = ticks[t].now
            /\ schedules'[ticks[t].i].nextRun
                 = calculateNextRun(schedules[ticks[t].i], ticks[t].now)]_vars

\* C25: a nextRun persisted by a tick, for a trigger or for a repair, is strictly
\* later than the now of that tick.
C25_NextRunAfterNow ==
  [][\A t \in Slots :
       (ticks[t].pc \in {"repair", "update"} /\ Steps_(t)) =>
         /\ schedules'[ticks[t].i].nextRun # NoDate
         /\ getTime(schedules'[ticks[t].i].nextRun) > getTime(ticks[t].now)]_vars

\* One schedule was repaired and the other triggered.
C25_Witness ==
  /\ schedules[1].lastRun = Instant(0) /\ schedules[1].nextRun # NoDate
  /\ schedules[2].lastRun = Instant(1) /\ schedules[2].nextRun # NoDate
  /\ schedules[1].frequency = "monthly" /\ schedules[2].frequency = "quarterly"

\* C29: cancelScan(id) returns true exactly while a token is registered for id and
\* the run has not reached a terminal state: the run that has ended in a terminal
\* state has no registry entry left, so cancelScan returns false for it.
C29_EndedRunUnregistered ==
  (RunEnded /\ status \in Terminal) => ~registered

\* C30: when creating the Report fails after the completed status was written,
\* the status stays completed, the counts and the progress are unchanged and the
\* aggregate returned is the one returned when the Report is created.
C30_ReportFailureKeepsCompleted ==
  [][(pc = "report" /\ faults' > faults) =>
       /\ pc' = "done"
       /\ status = "completed" /\ status' = "completed"
       /\ counts' = counts /\ progress' = progress
       /\ result' = [vulnerabilities |-> finalVulns, tally |-> FinalTally]]_vars

\* A run with findings returned after createReport threw.
C30_Witness ==
  /\ pc = "done" /\ status = "completed" /\ ~reportMade /\ ~hist.escaped
  /\ faults = 1 /\ Len(finalVulns) > 0 /\ result.vulnerabilities = finalVulns
  /\ counts.total = Len(finalVulns)

\* C40: no two findings of the resolver's output match each other under
\* areDuplicateVulnerabilities (in either order), and resolving the output
\* again returns it unchanged with removedCount 0.
C40_OutputFreeOfDuplicates ==
  pc = "resolved"
    => LET out == returned.deduplicated
       IN /\ \A i, j \in 1..Len(out) :
               i # j => ~areDuplicateVulnerabilities(out[i], out[j])
          /\ deduplicateVulnerabilities(out) = [deduplicated |-> out, removedCount |-> 0]

\* C40 witness: two matching findings separated by one that matches neither;
\* the output keeps the first and the separating finding.
C40_Witness ==
  /\ pc = "resolved"
  /\ Len(args) = 3
  /\ areDuplicateVulnerabilities(args[3], args[1])
  /\ ~areDuplicateVulnerabilities(args[2], args[1])
  /\ ~areDuplicateVulnerabilities(args[3], args[2])
  /\ returned.deduplicated = <<args[1], args[2]>>
  /\ returned.removedCount = 1

\* C31: the step of a run that writes status cancelled leaves progress at
\* the value the record held before that write; the write neither forces
\* 100 nor resets it.
C31_CancelledWriteKeepsProgress ==
  [][(status # "cancelled" /\ status' = "cancelled") => progress' = progress]_vars

\* C31 witness: a run ended cancelled with progress strictly inside a stage.
C31_Witness ==
  /\ status = "cancelled" /\ pc = "done" /\ hist.detected
  /\ progress \notin {0, 100}
  /\ inflight = {}

\* C33: when the poller gave up on the daemon job (the job did not reach 100
\* percent in time) and no cancellation was requested and no storage call
\* failed, the run does not enter the outer error handler, and it ends
\* completed with no findings of the ActiveScan stage.
C33_TimeoutSkipsStage ==
  (hist.timedOut /\ ~aborted /\ faults = 0)
    => /\ pc \notin {"catch", "persistErr"}
       /\ pc = "done" => (status = "completed" /\ zap.result = <<>>)

\* C37: a run launched with the depth the scheduler passes never invokes the
\* port scanner or the web-server scanner.
C37_ScheduledRunSkipsTools ==
  scanType = ScheduledScanType => pc \notin {"nmap", "nikto"}

\* The case of C36: an enabled schedule that ran before, has no nextRun, and
\* whose occurrence after lastRun is still ahead of now.
AwaitsOccurrence(schedule, now) ==
  /\ schedule.enabled
  /\ schedule.nextRun = NoDate
  /\ schedule.lastRun # NoDate
  /\ getTime(now) < getTime(calculateNextRun(schedule, schedule.lastRun))

\* C36: when the loop of a tick reaches a schedule whose nextRun is unset, whose
\* lastRun is set and whose occurrence after lastRun is still ahead of now, the
\* tick writes that occurrence as the schedule's nextRun, and this write
\* creates no scan, leaves lastRun as it is, and the tick goes on with the
\* following schedules.
C36_RepairPersistsOccurrence ==
  [][\A t \in Slots :
       /\ (/\ \/ ticks[t].pc = "scans" /\ Cardinality(Active) < 2
              \/ ticks[t].pc \in {"repair", "update"}
           /\ Steps_(t)) =>
            \A j \in ScheduleIds :
              /\ (LoopFrom(t) <= j /\ j < LoopStop(t)) =>
                   ~AwaitsOccurrence(ticks[t].schedules[j], ticks[t].now)
              /\ j = LoopStop(t) =>
                   (AwaitsOccurrence(ticks[t].schedules[j], ticks[t].now)
                      <=> ticks'[t].pc = "repair")
       /\ (ticks[t].pc = "repair" /\ Steps_(t)) =>
            LET i == ticks[t].i
                schedule == ticks[t].schedules[i]
            IN  /\ schedules'[i].nextRun = calculateNextRun(schedule, schedule.lastRun)
                /\ schedules'[i].lastRun = schedules[i].lastRun
                /\ \A j \in ScheduleIds \ {i} : schedules'[j] = schedules[j]
                /\ scans' = scans
                /\ ticks'[t].pc # "idle" => ticks'[t].i > i]_vars

\* C36 witness: a monthly schedule that ran before the first tick has got its
\* nextRun from a tick and no scan, while the tick went on to the next
\* schedule.
C36_Witness ==
  \E t \in Slots :
    /\ ticks[t].pc = "create" /\ ticks[t].i = 2
    /\ ticks[t].schedules[1].nextRun = NoDate
    /\ schedules[1].frequency = "monthly" /\ schedules[1].enabled
    /\ schedules[1].lastRun = Instant(0)
    /\ schedules[1].nextRun = calculateNextRun(schedules[1], Instant(0))
    /\ getTime(ticks[t].now) < getTime(schedules[1].nextRun)
    /\ \A k \in DOMAIN scans : scans[k].schedule # 1

\* C38: when the executions of two ticks overlap, a due schedule is triggered
\* by one of them only: two executions never both hold a scan they created
\* for the same schedule while neither has persisted lastRun and nextRun.
C38_OverlapTriggersOnce ==
  \A t, u \in Slots :
    (t # u /\ ticks[t].pc = "update" /\ ticks[u].pc = "update")
      => ticks[t].i # ticks[u].i

\* The risk indicator of an alert: the first of riskCode, riskcode, risk that
\* is present.
Indicator(a) ==
  IF a.riskCode # "" THEN a.riskCode
  ELSE IF a.riskcode # "" THEN a.riskcode
  ELSE a.risk

\* C35: the severity of a converted alert is high for the indicator 3 or High,
\* medium for 2 or Medium, low for 1, Low, 0 or Informational, and low for
\* every other indicator and for an alert without one; it is never critical.
C35_SeverityMapping ==
  pc = "converted"
    => LET k == Indicator(args)
           severity == returned[1].severity
       IN /\ k \in {"3", "High"} => severity = "high"
          /\ k \in {"2", "Medium"} => severity = "medium"
          /\ k \notin {"3", "High", "2", "Medium"} => severity = "low"
          /\ severity # "critical"

\* a/b < c/d for fractions with positive denominators
FracLess(x, y) == x[1] * y[2] < y[1] * x[2]

\* C32: a call isReady(maxAttempts, initialDelay) issues at most maxAttempts
\* requests; it returns true exactly when a request answered with status 200,
\* at that request, and false when maxAttempts requests ended otherwise; after
\* every attempt i that did not answer 200, except the last one, it has waited
\* initialDelay * 1.5^i, each wait longer than the one before, and after the
\* last attempt it has not waited.
C32_ReadinessBackoff ==
  LET call == calls[1]
      maxAttempts == args[1]
      initialDelay == args[2]
  IN  /\ call.requests <= maxAttempts
      /\ pc # "returned" => call.i < maxAttempts
      /\ \A k \in 1..Len(call.outcomes) - 1 : call.outcomes[k] # "200"
      /\ pc = "returned" =>
           /\ returned = TRUE <=>
                (call.outcomes # <<>> /\ call.outcomes[Len(call.outcomes)] = "200")
           /\ returned = FALSE => Len(call.outcomes) = maxAttempts
      /\ \A k \in 1..Len(call.waits) :
           /\ k < maxAttempts => call.waits[k] = delay(initialDelay, k - 1)
           /\ k = maxAttempts => call.waits[k] = NoWait
           /\ (1 < k /\ k < maxAttempts) => FracLess(call.waits[k - 1], call.waits[k])

\* The daemon job of run r is in flight: started and its alerts not collected.
JobInFlight(r) == calls[r].pc \in {"poll", "alerts"}

\* C34: once the spider of a run failed to start, errored while polled or ran
\* out of time, the run is still in waitForSpider, is about to request the
\* active scan, or has requested it.
C34_SpiderNeverBlocksActiveScan ==
  \A r \in Runs :
    (calls[r].spiderFailure # "none" \/ calls[r].pollErrored)
      => (calls[r].pc \in {"spider", "ascan"} \/ calls[r].requested)

\* C34 witness: the spider of a run errored while polled and then ran out of
\* time, the spider of the other run failed to start, and both daemon jobs
\* were requested and started.
C34_Witness ==
  /\ calls[1].pollErrored /\ calls[1].spiderFailure = "timeout"
  /\ calls[2].spiderFailure = "start"
  /\ \A r \in Runs : calls[r].requested /\ calls[r].pc = "poll"

\* C39: the daemon serves a session reset for one run only while the job of
\* no other run is in flight.
C39_NoResetDuringJob ==
  [][\A r \in Runs :
       (calls[r].pc = "clearSession" /\ zapClient'.sessions > zapClient.sessions)
         => \A q \in Runs \ {r} : ~JobInFlight(q)]_vars

====
